---- MODULE Spec2Model ----
(***************************************************************************)
(* Model of the showdown webhook: the identity link store                  *)
(* (api/discord_interactions.py) and the match router (api/showdown.py)    *)
(* over a key-value store with single-key GET/SET/DEL and a resource       *)
(* gateway (Discord threads).                                              *)
(*                                                                         *)
(* Strings are sequences of code points (integers), so that strip(),       *)
(* lower() and sorted() are computed as Python computes them.  A store key *)
(* "prefix:body" is the pair <<prefix, body>>: the prefixes are fixed and  *)
(* none is a prefix of another, so the pair determines the key string.     *)
(* A stored value is a string; a string that json.dumps produced is        *)
(* written Json(fields) (the object it encodes), any other string is       *)
(* written Str(codepoints).  The alphabets below hold no "}" and no "|",   *)
(* so no Str value parses as a JSON object and no name contains the pair   *)
(* separator.                                                              *)
(***************************************************************************)
EXTENDS Integers, Sequences, FiniteSets, TLC

VARIABLES
    store,      \* the key-value store: a function from the present keys to their values
    threads,    \* the gateway's live threads: thread id -> "active" | "archived"
    nextId,     \* the gateway's next snowflake
    last,       \* the last handled request: its arguments, result and call counts
    preLink,    \* the store just before the last successful link
    rt,         \* per pair key (per channel): the history of the events handled for it
    fin,        \* input of the pure-function harness
    fout,       \* output of the pure-function harness
    chan,       \* the messages of the status channel, most recent first
    procs,      \* the requests in flight: the position and locals of each
    config      \* the environment of the deployment: SHARED_SECRET

vars == <<store, threads, nextId, last, preLink, rt, fin, fout, chan, procs, config>>

(***************************************************************************)
(* Bounds of the model.                                                    *)
(***************************************************************************)
MaxNameLen == 2     \* longest player name drawn for the pair-key harness
MaxThreads == 2     \* most threads the gateway creates in one behaviour
MaxValLen == 2      \* longest bare string drawn as a stored value
MaxMsgs == 3        \* most messages posted to the status channel in one behaviour
ArchivedPageSize == 1   \* threads the gateway returns in one page of the archived listing
MaxCount == 2           \* the value at which the counters of a sweep taken step by step stop
MaxFailures == 1    \* sweeps in which the gateway may fail a DELETE in one behaviour of SpecRetry
ScanPageSize == 1   \* keys the store returns to one request of a scan
MaxScanFail == 2    \* the latest request of a scan that the store may fail

(***************************************************************************)
(* Python values and strings.                                              *)
(***************************************************************************)
NoneV == <<"none", <<>>>>
Str(s) == <<"str", s>>
Json(o) == <<"json", o>>
Null == <<-1>>                  \* a JSON field that is null or missing

IsNone(v) == v[1] = "none"
IsStr(v) == v[1] = "str"
IsJson(v) == v[1] = "json"

\* Python truthiness of a GET result: None and "" are falsy.
Truthy(v) == ~IsNone(v) /\ ~(IsStr(v) /\ v[2] = <<>>)

\* str.isspace(): the code points str.strip() removes (Unicode 14.0, the
\* character database of the interpreter).
IsSpace(c) ==
    \/ c \in 9..13 \/ c \in 28..32
    \/ c \in {133, 160, 5760}
    \/ c \in 8192..8202
    \/ c \in {8232, 8233, 8239, 8287, 12288}

RECURSIVE LStrip(_)
LStrip(s) == IF s # <<>> /\ IsSpace(Head(s)) THEN LStrip(Tail(s)) ELSE s

RECURSIVE RStrip(_)
RStrip(s) ==
    IF s # <<>> /\ IsSpace(s[Len(s)]) THEN RStrip(SubSeq(s, 1, Len(s) - 1)) ELSE s

\* str.strip()
Strip(s) == RStrip(LStrip(s))

\* The one-to-one lower-case mappings of str.lower(): <<first, last, step,
\* delta>> maps the code points first, first + step, ..., last to themselves
\* plus delta.
LowerRules ==
    <<
       <<65, 90, 1, 32>>, <<192, 214, 1, 32>>, <<216, 222, 1, 32>>, <<256, 302, 2, 1>>,
       <<306, 310, 2, 1>>, <<313, 327, 2, 1>>, <<330, 374, 2, 1>>, <<376, 376, 1, -121>>,
       <<377, 381, 2, 1>>, <<385, 385, 1, 210>>, <<386, 388, 2, 1>>, <<390, 390, 1, 206>>,
       <<391, 391, 1, 1>>, <<393, 394, 1, 205>>, <<395, 395, 1, 1>>, <<398, 398, 1, 79>>,
       <<399, 399, 1, 202>>, <<400, 400, 1, 203>>, <<401, 401, 1, 1>>, <<403, 403, 1, 205>>,
       <<404, 404, 1, 207>>, <<406, 406, 1, 211>>, <<407, 407, 1, 209>>, <<408, 408, 1, 1>>,
       <<412, 412, 1, 211>>, <<413, 413, 1, 213>>, <<415, 415, 1, 214>>, <<416, 420, 2, 1>>,
       <<422, 422, 1, 218>>, <<423, 423, 1, 1>>, <<425, 425, 1, 218>>, <<428, 428, 1, 1>>,
       <<430, 430, 1, 218>>, <<431, 431, 1, 1>>, <<433, 434, 1, 217>>, <<435, 437, 2, 1>>,
       <<439, 439, 1, 219>>, <<440, 440, 1, 1>>, <<444, 444, 1, 1>>, <<452, 452, 1, 2>>,
       <<453, 453, 1, 1>>, <<455, 455, 1, 2>>, <<456, 456, 1, 1>>, <<458, 458, 1, 2>>,
       <<459, 475, 2, 1>>, <<478, 494, 2, 1>>, <<497, 497, 1, 2>>, <<498, 500, 2, 1>>,
       <<502, 502, 1, -97>>, <<503, 503, 1, -56>>, <<504, 542, 2, 1>>, <<544, 544, 1, -130>>,
       <<546, 562, 2, 1>>, <<570, 570, 1, 10795>>, <<571, 571, 1, 1>>, <<573, 573, 1, -163>>,
       <<574, 574, 1, 10792>>, <<577, 577, 1, 1>>, <<579, 579, 1, -195>>, <<580, 580, 1, 69>>,
       <<581, 581, 1, 71>>, <<582, 590, 2, 1>>, <<880, 882, 2, 1>>, <<886, 886, 1, 1>>,
       <<895, 895, 1, 116>>, <<902, 902, 1, 38>>, <<904, 906, 1, 37>>, <<908, 908, 1, 64>>,
       <<910, 911, 1, 63>>, <<913, 929, 1, 32>>, <<931, 939, 1, 32>>, <<975, 975, 1, 8>>,
       <<984, 1006, 2, 1>>, <<1012, 1012, 1, -60>>, <<1015, 1015, 1, 1>>, <<1017, 1017, 1, -7>>,
       <<1018, 1018, 1, 1>>, <<1021, 1023, 1, -130>>, <<1024, 1039, 1, 80>>, <<1040, 1071, 1, 32>>,
       <<1120, 1152, 2, 1>>, <<1162, 1214, 2, 1>>, <<1216, 1216, 1, 15>>, <<1217, 1229, 2, 1>>,
       <<1232, 1326, 2, 1>>, <<1329, 1366, 1, 48>>, <<4256, 4293, 1, 7264>>, <<4295, 4295, 1, 7264>>,
       <<4301, 4301, 1, 7264>>, <<5024, 5103, 1, 38864>>, <<5104, 5109, 1, 8>>, <<7312, 7354, 1, -3008>>,
       <<7357, 7359, 1, -3008>>, <<7680, 7828, 2, 1>>, <<7838, 7838, 1, -7615>>, <<7840, 7934, 2, 1>>,
       <<7944, 7951, 1, -8>>, <<7960, 7965, 1, -8>>, <<7976, 7983, 1, -8>>, <<7992, 7999, 1, -8>>,
       <<8008, 8013, 1, -8>>, <<8025, 8031, 2, -8>>, <<8040, 8047, 1, -8>>, <<8072, 8079, 1, -8>>,
       <<8088, 8095, 1, -8>>, <<8104, 8111, 1, -8>>, <<8120, 8121, 1, -8>>, <<8122, 8123, 1, -74>>,
       <<8124, 8124, 1, -9>>, <<8136, 8139, 1, -86>>, <<8140, 8140, 1, -9>>, <<8152, 8153, 1, -8>>,
       <<8154, 8155, 1, -100>>, <<8168, 8169, 1, -8>>, <<8170, 8171, 1, -112>>, <<8172, 8172, 1, -7>>,
       <<8184, 8185, 1, -128>>, <<8186, 8187, 1, -126>>, <<8188, 8188, 1, -9>>, <<8486, 8486, 1, -7517>>,
       <<8490, 8490, 1, -8383>>, <<8491, 8491, 1, -8262>>, <<8498, 8498, 1, 28>>, <<8544, 8559, 1, 16>>,
       <<8579, 8579, 1, 1>>, <<9398, 9423, 1, 26>>, <<11264, 11311, 1, 48>>, <<11360, 11360, 1, 1>>,
       <<11362, 11362, 1, -10743>>, <<11363, 11363, 1, -3814>>, <<11364, 11364, 1, -10727>>, <<11367, 11371, 2, 1>>,
       <<11373, 11373, 1, -10780>>, <<11374, 11374, 1, -10749>>, <<11375, 11375, 1, -10783>>, <<11376, 11376, 1, -10782>>,
       <<11378, 11378, 1, 1>>, <<11381, 11381, 1, 1>>, <<11390, 11391, 1, -10815>>, <<11392, 11490, 2, 1>>,
       <<11499, 11501, 2, 1>>, <<11506, 11506, 1, 1>>, <<42560, 42604, 2, 1>>, <<42624, 42650, 2, 1>>,
       <<42786, 42798, 2, 1>>, <<42802, 42862, 2, 1>>, <<42873, 42875, 2, 1>>, <<42877, 42877, 1, -35332>>,
       <<42878, 42886, 2, 1>>, <<42891, 42891, 1, 1>>, <<42893, 42893, 1, -42280>>, <<42896, 42898, 2, 1>>,
       <<42902, 42920, 2, 1>>, <<42922, 42922, 1, -42308>>, <<42923, 42923, 1, -42319>>, <<42924, 42924, 1, -42315>>,
       <<42925, 42925, 1, -42305>>, <<42926, 42926, 1, -42308>>, <<42928, 42928, 1, -42258>>, <<42929, 42929, 1, -42282>>,
       <<42930, 42930, 1, -42261>>, <<42931, 42931, 1, 928>>, <<42932, 42946, 2, 1>>, <<42948, 42948, 1, -48>>,
       <<42949, 42949, 1, -42307>>, <<42950, 42950, 1, -35384>>, <<42951, 42953, 2, 1>>, <<42960, 42960, 1, 1>>,
       <<42966, 42968, 2, 1>>, <<42997, 42997, 1, 1>>, <<65313, 65338, 1, 32>>, <<66560, 66599, 1, 40>>,
       <<66736, 66771, 1, 40>>, <<66928, 66938, 1, 39>>, <<66940, 66954, 1, 39>>, <<66956, 66962, 1, 39>>,
       <<66964, 66965, 1, 39>>, <<68736, 68786, 1, 64>>, <<71840, 71871, 1, 32>>, <<93760, 93791, 1, 32>>,
       <<125184, 125217, 1, 34>>
    >>

\* The cased code points that are not case-ignorable, as ranges <<first, last>>.
CasedRanges ==
    <<
       <<65, 90>>, <<97, 122>>, <<170, 170>>, <<181, 181>>, <<186, 186>>, <<192, 214>>,
       <<216, 246>>, <<248, 442>>, <<444, 447>>, <<452, 659>>, <<661, 687>>, <<880, 883>>,
       <<886, 887>>, <<891, 893>>, <<895, 895>>, <<902, 902>>, <<904, 906>>, <<908, 908>>,
       <<910, 929>>, <<931, 1013>>, <<1015, 1153>>, <<1162, 1327>>, <<1329, 1366>>, <<1376, 1416>>,
       <<4256, 4293>>, <<4295, 4295>>, <<4301, 4301>>, <<4304, 4346>>, <<4349, 4351>>, <<5024, 5109>>,
       <<5112, 5117>>, <<7296, 7304>>, <<7312, 7354>>, <<7357, 7359>>, <<7424, 7467>>, <<7531, 7543>>,
       <<7545, 7578>>, <<7680, 7957>>, <<7960, 7965>>, <<7968, 8005>>, <<8008, 8013>>, <<8016, 8023>>,
       <<8025, 8025>>, <<8027, 8027>>, <<8029, 8029>>, <<8031, 8061>>, <<8064, 8116>>, <<8118, 8124>>,
       <<8126, 8126>>, <<8130, 8132>>, <<8134, 8140>>, <<8144, 8147>>, <<8150, 8155>>, <<8160, 8172>>,
       <<8178, 8180>>, <<8182, 8188>>, <<8450, 8450>>, <<8455, 8455>>, <<8458, 8467>>, <<8469, 8469>>,
       <<8473, 8477>>, <<8484, 8484>>, <<8486, 8486>>, <<8488, 8488>>, <<8490, 8493>>, <<8495, 8500>>,
       <<8505, 8505>>, <<8508, 8511>>, <<8517, 8521>>, <<8526, 8526>>, <<8544, 8575>>, <<8579, 8580>>,
       <<9398, 9449>>, <<11264, 11387>>, <<11390, 11492>>, <<11499, 11502>>, <<11506, 11507>>, <<11520, 11557>>,
       <<11559, 11559>>, <<11565, 11565>>, <<42560, 42605>>, <<42624, 42651>>, <<42786, 42863>>, <<42865, 42887>>,
       <<42891, 42894>>, <<42896, 42954>>, <<42960, 42961>>, <<42963, 42963>>, <<42965, 42969>>, <<42997, 42998>>,
       <<43002, 43002>>, <<43824, 43866>>, <<43872, 43880>>, <<43888, 43967>>, <<64256, 64262>>, <<64275, 64279>>,
       <<65313, 65338>>, <<65345, 65370>>, <<66560, 66639>>, <<66736, 66771>>, <<66776, 66811>>, <<66928, 66938>>,
       <<66940, 66954>>, <<66956, 66962>>, <<66964, 66965>>, <<66967, 66977>>, <<66979, 66993>>, <<66995, 67001>>,
       <<67003, 67004>>, <<68736, 68786>>, <<68800, 68850>>, <<71840, 71903>>, <<93760, 93823>>, <<119808, 119892>>,
       <<119894, 119964>>, <<119966, 119967>>, <<119970, 119970>>, <<119973, 119974>>, <<119977, 119980>>, <<119982, 119993>>,
       <<119995, 119995>>, <<119997, 120003>>, <<120005, 120069>>, <<120071, 120074>>, <<120077, 120084>>, <<120086, 120092>>,
       <<120094, 120121>>, <<120123, 120126>>, <<120128, 120132>>, <<120134, 120134>>, <<120138, 120144>>, <<120146, 120485>>,
       <<120488, 120512>>, <<120514, 120538>>, <<120540, 120570>>, <<120572, 120596>>, <<120598, 120628>>, <<120630, 120654>>,
       <<120656, 120686>>, <<120688, 120712>>, <<120714, 120744>>, <<120746, 120770>>, <<120772, 120779>>, <<122624, 122633>>,
       <<122635, 122654>>, <<125184, 125251>>, <<127280, 127305>>, <<127312, 127337>>, <<127344, 127369>>
    >>

\* The case-ignorable code points, as ranges <<first, last>>.
CaseIgnorableRanges ==
    <<
       <<39, 39>>, <<46, 46>>, <<58, 58>>, <<94, 94>>, <<96, 96>>, <<168, 168>>,
       <<173, 173>>, <<175, 175>>, <<180, 180>>, <<183, 184>>, <<688, 879>>, <<884, 885>>,
       <<890, 890>>, <<900, 901>>, <<903, 903>>, <<1155, 1161>>, <<1369, 1369>>, <<1375, 1375>>,
       <<1425, 1469>>, <<1471, 1471>>, <<1473, 1474>>, <<1476, 1477>>, <<1479, 1479>>, <<1524, 1524>>,
       <<1536, 1541>>, <<1552, 1562>>, <<1564, 1564>>, <<1600, 1600>>, <<1611, 1631>>, <<1648, 1648>>,
       <<1750, 1757>>, <<1759, 1768>>, <<1770, 1773>>, <<1807, 1807>>, <<1809, 1809>>, <<1840, 1866>>,
       <<1958, 1968>>, <<2027, 2037>>, <<2042, 2042>>, <<2045, 2045>>, <<2070, 2093>>, <<2137, 2139>>,
       <<2184, 2184>>, <<2192, 2193>>, <<2200, 2207>>, <<2249, 2306>>, <<2362, 2362>>, <<2364, 2364>>,
       <<2369, 2376>>, <<2381, 2381>>, <<2385, 2391>>, <<2402, 2403>>, <<2417, 2417>>, <<2433, 2433>>,
       <<2492, 2492>>, <<2497, 2500>>, <<2509, 2509>>, <<2530, 2531>>, <<2558, 2558>>, <<2561, 2562>>,
       <<2620, 2620>>, <<2625, 2626>>, <<2631, 2632>>, <<2635, 2637>>, <<2641, 2641>>, <<2672, 2673>>,
       <<2677, 2677>>, <<2689, 2690>>, <<2748, 2748>>, <<2753, 2757>>, <<2759, 2760>>, <<2765, 2765>>,
       <<2786, 2787>>, <<2810, 2815>>, <<2817, 2817>>, <<2876, 2876>>, <<2879, 2879>>, <<2881, 2884>>,
       <<2893, 2893>>, <<2901, 2902>>, <<2914, 2915>>, <<2946, 2946>>, <<3008, 3008>>, <<3021, 3021>>,
       <<3072, 3072>>, <<3076, 3076>>, <<3132, 3132>>, <<3134, 3136>>, <<3142, 3144>>, <<3146, 3149>>,
       <<3157, 3158>>, <<3170, 3171>>, <<3201, 3201>>, <<3260, 3260>>, <<3263, 3263>>, <<3270, 3270>>,
       <<3276, 3277>>, <<3298, 3299>>, <<3328, 3329>>, <<3387, 3388>>, <<3393, 3396>>, <<3405, 3405>>,
       <<3426, 3427>>, <<3457, 3457>>, <<3530, 3530>>, <<3538, 3540>>, <<3542, 3542>>, <<3633, 3633>>,
       <<3636, 3642>>, <<3654, 3662>>, <<3761, 3761>>, <<3764, 3772>>, <<3782, 3782>>, <<3784, 3789>>,
       <<3864, 3865>>, <<3893, 3893>>, <<3895, 3895>>, <<3897, 3897>>, <<3953, 3966>>, <<3968, 3972>>,
       <<3974, 3975>>, <<3981, 3991>>, <<3993, 4028>>, <<4038, 4038>>, <<4141, 4144>>, <<4146, 4151>>,
       <<4153, 4154>>, <<4157, 4158>>, <<4184, 4185>>, <<4190, 4192>>, <<4209, 4212>>, <<4226, 4226>>,
       <<4229, 4230>>, <<4237, 4237>>, <<4253, 4253>>, <<4348, 4348>>, <<4957, 4959>>, <<5906, 5908>>,
       <<5938, 5939>>, <<5970, 5971>>, <<6002, 6003>>, <<6068, 6069>>, <<6071, 6077>>, <<6086, 6086>>,
       <<6089, 6099>>, <<6103, 6103>>, <<6109, 6109>>, <<6155, 6159>>, <<6211, 6211>>, <<6277, 6278>>,
       <<6313, 6313>>, <<6432, 6434>>, <<6439, 6440>>, <<6450, 6450>>, <<6457, 6459>>, <<6679, 6680>>,
       <<6683, 6683>>, <<6742, 6742>>, <<6744, 6750>>, <<6752, 6752>>, <<6754, 6754>>, <<6757, 6764>>,
       <<6771, 6780>>, <<6783, 6783>>, <<6823, 6823>>, <<6832, 6862>>, <<6912, 6915>>, <<6964, 6964>>,
       <<6966, 6970>>, <<6972, 6972>>, <<6978, 6978>>, <<7019, 7027>>, <<7040, 7041>>, <<7074, 7077>>,
       <<7080, 7081>>, <<7083, 7085>>, <<7142, 7142>>, <<7144, 7145>>, <<7149, 7149>>, <<7151, 7153>>,
       <<7212, 7219>>, <<7222, 7223>>, <<7288, 7293>>, <<7376, 7378>>, <<7380, 7392>>, <<7394, 7400>>,
       <<7405, 7405>>, <<7412, 7412>>, <<7416, 7417>>, <<7468, 7530>>, <<7544, 7544>>, <<7579, 7679>>,
       <<8125, 8125>>, <<8127, 8129>>, <<8141, 8143>>, <<8157, 8159>>, <<8173, 8175>>, <<8189, 8190>>,
       <<8203, 8207>>, <<8216, 8217>>, <<8228, 8228>>, <<8231, 8231>>, <<8234, 8238>>, <<8288, 8292>>,
       <<8294, 8303>>, <<8305, 8305>>, <<8319, 8319>>, <<8336, 8348>>, <<8400, 8432>>, <<11388, 11389>>,
       <<11503, 11505>>, <<11631, 11631>>, <<11647, 11647>>, <<11744, 11775>>, <<11823, 11823>>, <<12293, 12293>>,
       <<12330, 12333>>, <<12337, 12341>>, <<12347, 12347>>, <<12441, 12446>>, <<12540, 12542>>, <<40981, 40981>>,
       <<42232, 42237>>, <<42508, 42508>>, <<42607, 42610>>, <<42612, 42621>>, <<42623, 42623>>, <<42652, 42655>>,
       <<42736, 42737>>, <<42752, 42785>>, <<42864, 42864>>, <<42888, 42890>>, <<42994, 42996>>, <<43000, 43001>>,
       <<43010, 43010>>, <<43014, 43014>>, <<43019, 43019>>, <<43045, 43046>>, <<43052, 43052>>, <<43204, 43205>>,
       <<43232, 43249>>, <<43263, 43263>>, <<43302, 43309>>, <<43335, 43345>>, <<43392, 43394>>, <<43443, 43443>>,
       <<43446, 43449>>, <<43452, 43453>>, <<43471, 43471>>, <<43493, 43494>>, <<43561, 43566>>, <<43569, 43570>>,
       <<43573, 43574>>, <<43587, 43587>>, <<43596, 43596>>, <<43632, 43632>>, <<43644, 43644>>, <<43696, 43696>>,
       <<43698, 43700>>, <<43703, 43704>>, <<43710, 43711>>, <<43713, 43713>>, <<43741, 43741>>, <<43756, 43757>>,
       <<43763, 43764>>, <<43766, 43766>>, <<43867, 43871>>, <<43881, 43883>>, <<44005, 44005>>, <<44008, 44008>>,
       <<44013, 44013>>, <<64286, 64286>>, <<64434, 64450>>, <<65024, 65039>>, <<65043, 65043>>, <<65056, 65071>>,
       <<65106, 65106>>, <<65109, 65109>>, <<65279, 65279>>, <<65287, 65287>>, <<65294, 65294>>, <<65306, 65306>>,
       <<65342, 65342>>, <<65344, 65344>>, <<65392, 65392>>, <<65438, 65439>>, <<65507, 65507>>, <<65529, 65531>>,
       <<66045, 66045>>, <<66272, 66272>>, <<66422, 66426>>, <<67456, 67461>>, <<67463, 67504>>, <<67506, 67514>>,
       <<68097, 68099>>, <<68101, 68102>>, <<68108, 68111>>, <<68152, 68154>>, <<68159, 68159>>, <<68325, 68326>>,
       <<68900, 68903>>, <<69291, 69292>>, <<69446, 69456>>, <<69506, 69509>>, <<69633, 69633>>, <<69688, 69702>>,
       <<69744, 69744>>, <<69747, 69748>>, <<69759, 69761>>, <<69811, 69814>>, <<69817, 69818>>, <<69821, 69821>>,
       <<69826, 69826>>, <<69837, 69837>>, <<69888, 69890>>, <<69927, 69931>>, <<69933, 69940>>, <<70003, 70003>>,
       <<70016, 70017>>, <<70070, 70078>>, <<70089, 70092>>, <<70095, 70095>>, <<70191, 70193>>, <<70196, 70196>>,
       <<70198, 70199>>, <<70206, 70206>>, <<70367, 70367>>, <<70371, 70378>>, <<70400, 70401>>, <<70459, 70460>>,
       <<70464, 70464>>, <<70502, 70508>>, <<70512, 70516>>, <<70712, 70719>>, <<70722, 70724>>, <<70726, 70726>>,
       <<70750, 70750>>, <<70835, 70840>>, <<70842, 70842>>, <<70847, 70848>>, <<70850, 70851>>, <<71090, 71093>>,
       <<71100, 71101>>, <<71103, 71104>>, <<71132, 71133>>, <<71219, 71226>>, <<71229, 71229>>, <<71231, 71232>>,
       <<71339, 71339>>, <<71341, 71341>>, <<71344, 71349>>, <<71351, 71351>>, <<71453, 71455>>, <<71458, 71461>>,
       <<71463, 71467>>, <<71727, 71735>>, <<71737, 71738>>, <<71995, 71996>>, <<71998, 71998>>, <<72003, 72003>>,
       <<72148, 72151>>, <<72154, 72155>>, <<72160, 72160>>, <<72193, 72202>>, <<72243, 72248>>, <<72251, 72254>>,
       <<72263, 72263>>, <<72273, 72278>>, <<72281, 72283>>, <<72330, 72342>>, <<72344, 72345>>, <<72752, 72758>>,
       <<72760, 72765>>, <<72767, 72767>>, <<72850, 72871>>, <<72874, 72880>>, <<72882, 72883>>, <<72885, 72886>>,
       <<73009, 73014>>, <<73018, 73018>>, <<73020, 73021>>, <<73023, 73029>>, <<73031, 73031>>, <<73104, 73105>>,
       <<73109, 73109>>, <<73111, 73111>>, <<73459, 73460>>, <<78896, 78904>>, <<92912, 92916>>, <<92976, 92982>>,
       <<92992, 92995>>, <<94031, 94031>>, <<94095, 94111>>, <<94176, 94177>>, <<94179, 94180>>, <<110576, 110579>>,
       <<110581, 110587>>, <<110589, 110590>>, <<113821, 113822>>, <<113824, 113827>>, <<118528, 118573>>, <<118576, 118598>>,
       <<119143, 119145>>, <<119155, 119170>>, <<119173, 119179>>, <<119210, 119213>>, <<119362, 119364>>, <<121344, 121398>>,
       <<121403, 121452>>, <<121461, 121461>>, <<121476, 121476>>, <<121499, 121503>>, <<121505, 121519>>, <<122880, 122886>>,
       <<122888, 122904>>, <<122907, 122913>>, <<122915, 122916>>, <<122918, 122922>>, <<123184, 123197>>, <<123566, 123566>>,
       <<123628, 123631>>, <<125136, 125142>>, <<125252, 125259>>, <<127995, 127999>>, <<917505, 917505>>, <<917536, 917631>>,
       <<917760, 917999>>
    >>

InRanges(T, c) == \E i \in 1..Len(T) : T[i][1] <= c /\ c <= T[i][2]

\* Tested on code points that are not case-ignorable only.
IsCased(c) == InRanges(CasedRanges, c)

IsCaseIgnorable(c) == InRanges(CaseIgnorableRanges, c)

\* The lower case of one code point other than capital sigma; U+0130 becomes two
\* code points.
LowerChar(c) ==
    IF c < 128 THEN <<IF c \in 65..90 THEN c + 32 ELSE c>>
    ELSE IF c = 304 THEN <<105, 775>>
    ELSE LET Mapped(T) ==
                 LET R == {i \in 1..Len(T) : /\ T[i][1] <= c /\ c <= T[i][2]
                                             /\ (c - T[i][1]) % T[i][3] = 0}
                 IN  IF R = {} THEN <<c>> ELSE <<c + T[CHOOSE i \in R : TRUE][4]>>
         IN  Mapped(LowerRules)

\* The capital sigma at s[i] ends a word: the nearest code point before it that
\* is not case-ignorable is cased, and the nearest one after it is not.
FinalSigma(s, i) ==
    LET Ends(before, after) ==
            /\ before # {}
            /\ IsCased(s[CHOOSE j \in before : \A k \in before : k <= j])
            /\ after = {} \/ ~IsCased(s[CHOOSE j \in after : \A k \in after : j <= k])
    IN  Ends({j \in 1..(i - 1) : ~IsCaseIgnorable(s[j])},
             {j \in (i + 1)..Len(s) : ~IsCaseIgnorable(s[j])})

RECURSIVE LowerFrom(_, _)
LowerFrom(s, i) ==
    IF i > Len(s) THEN <<>>
    ELSE (IF s[i] = 931 THEN <<IF FinalSigma(s, i) THEN 962 ELSE 963>>
          ELSE LowerChar(s[i])) \o LowerFrom(s, i + 1)

\* str.lower(); a string of ASCII needs no table.
Lower(s) ==
    IF \A i \in 1..Len(s) : s[i] < 128
    THEN [i \in 1..Len(s) |-> IF s[i] \in 65..90 THEN s[i] + 32 ELSE s[i]]
    ELSE LowerFrom(s, 1)

\* Python's string order: lexicographic by code point, a proper prefix first.
RECURSIVE StrLeq(_, _)
StrLeq(x, y) ==
    IF x = <<>> THEN TRUE
    ELSE IF y = <<>> THEN FALSE
    ELSE IF Head(x) < Head(y) THEN TRUE
    ELSE IF Head(x) > Head(y) THEN FALSE
    ELSE StrLeq(Tail(x), Tail(y))

\* All strings over alphabet A of length at most n.
StringsUpTo(A, n) == UNION {[1..k -> A] : k \in 0..n}

(***************************************************************************)
(* The key-value store (Upstash REST): GET, SET, DEL by key.               *)
(***************************************************************************)
Key(prefix, body) == <<prefix, body>>

EmptyStore == [k \in {} |-> NoneV]

Get(st, k) == IF k \in DOMAIN st THEN st[k] ELSE NoneV

Set(st, k, v) == [x \in (DOMAIN st) \cup {k} |-> IF x = k THEN v ELSE st[x]]

Del(st, k) == [x \in (DOMAIN st) \ {k} |-> st[x]]

(***************************************************************************)
(* IdentityLinkStore: api/discord_interactions.py                          *)
(***************************************************************************)
ADMINISTRATOR == 8

\* json.dumps({"id": user_id, "username": username, "display": display_name})
PlayerBlob(user_id, username, display) == Json(<<user_id, username, display>>)

\* json.dumps({"username": username, "display": display_name, "player": player_norm})
MetaBlob(username, display, player_norm) == Json(<<username, display, player_norm>>)

\* save_link, lines 79-93: the four SET calls, in order.
LinkWrites(st, player_norm, user_id, display, username) ==
    LET player_lc == Lower(player_norm)
        s1 == Set(st, Key("playerlink", player_lc), PlayerBlob(user_id, username, display))
        s2 == Set(s1, Key("userlink", user_id), Str(player_norm))
        S3(uname_lc, s) ==
            IF uname_lc # <<>> THEN Set(s, Key("usernamelink", uname_lc), Str(player_norm))
            ELSE s
    IN  Set(S3(Lower(Strip(username)), s2), Key("usermeta", user_id),
            MetaBlob(username, display, player_norm))

\* The number of SET calls LinkWrites makes.
LinkWriteCount(username) == IF Lower(Strip(username)) # <<>> THEN 4 ELSE 3

\* save_link without the check of the user's reverse key.
SaveLinkNoUserCheck(st, playername, user_id, display, username) ==
    LET player_norm == Strip(playername)
        existing == Get(st, Key("playerlink", Lower(player_norm)))
    IN  IF Truthy(existing)
        THEN [ok |-> FALSE, res |-> "AlreadyLinkedPlayer", st |-> st, wr |-> 0]
        ELSE [ok |-> TRUE, res |-> "Linked",
              st |-> LinkWrites(st, player_norm, user_id, display, username),
              wr |-> LinkWriteCount(username)]

\* save_link without the check of the player's key.
SaveLinkNoPlayerCheck(st, playername, user_id, display, username) ==
    LET player_norm == Strip(playername)
        existing_player == Get(st, Key("userlink", user_id))
    IN  IF Truthy(existing_player)
        THEN [ok |-> FALSE, res |-> "AlreadyLinkedUser", st |-> st, wr |-> 0]
        ELSE [ok |-> TRUE, res |-> "Linked",
              st |-> LinkWrites(st, player_norm, user_id, display, username),
              wr |-> LinkWriteCount(username)]

\* save_link rejecting only a DIFFERENT player or a DIFFERENT user, and writing
\* again when the pair is already linked to each other.
SaveLinkOnlyDifferent(st, playername, user_id, display, username) ==
    LET player_norm == Strip(playername)
        existing_player == Get(st, Key("userlink", user_id))
        Checked(player_lc, existing) ==
            IF Truthy(existing_player) /\ Lower(Strip(existing_player[2])) # player_lc
            THEN [ok |-> FALSE, res |-> "AlreadyLinkedUser", st |-> st, wr |-> 0]
            ELSE IF /\ Truthy(existing)
                    /\ existing # PlayerBlob(user_id, existing[2][2], existing[2][3])
            THEN [ok |-> FALSE, res |-> "AlreadyLinkedPlayer", st |-> st, wr |-> 0]
            ELSE [ok |-> TRUE, res |-> "Linked",
                  st |-> LinkWrites(st, player_norm, user_id, display, username),
                  wr |-> LinkWriteCount(username)]
        Read(player_lc) == Checked(player_lc, Get(st, Key("playerlink", player_lc)))
    IN  Read(Lower(player_norm))

\* save_link: [ok, res, st, wr] = the returned flag, the reason, the store after,
\* the number of SET calls made.
SaveLink(st, playername, user_id, display, username) ==
    LET player_norm == Strip(playername)
        player_lc == Lower(player_norm)
        existing_player == Get(st, Key("userlink", user_id))
        existing == Get(st, Key("playerlink", player_lc))
    IN  IF Truthy(existing_player)
        THEN [ok |-> FALSE, res |-> "AlreadyLinkedUser", st |-> st, wr |-> 0]
        ELSE IF Truthy(existing)
        THEN [ok |-> FALSE, res |-> "AlreadyLinkedPlayer", st |-> st, wr |-> 0]
        ELSE [ok |-> TRUE, res |-> "Linked",
              st |-> LinkWrites(st, player_norm, user_id, display, username),
              wr |-> LinkWriteCount(username)]

\* read_player_link: NoneV, or <<"info", <<id, username, display>>>>.
Info(id, username, display) == <<"info", <<id, username, display>>>>

ReadPlayerLink(st, playername) ==
    LET Decoded(raw) ==
            IF ~Truthy(raw) THEN NoneV
            ELSE IF IsStr(raw) /\ raw[2][1] # 123 THEN Info(raw[2], Null, Null)
            ELSE IF IsJson(raw) THEN Info(raw[2][1], raw[2][2], raw[2][3])
            ELSE NoneV      \* begins with "{" and json.loads raises
    IN  Decoded(Get(st, Key("playerlink", Lower(Strip(playername)))))

\* info.get("id"): the user id of a lookup result, None when there is none.
InfoId(info) == IF IsNone(info) \/ info[2][1] = Null THEN NoneV ELSE Str(info[2][1])

\* (info.get("username") or "").strip().lower()
InfoUname(info) == IF info[2][2] = Null THEN <<>> ELSE Lower(Strip(info[2][2]))

\* delete_player_link leaving the user's metadata key behind.
DeletePlayerLinkKeepMeta(st, playername) ==
    LET D3(uname, d2) == IF uname # <<>> THEN Del(d2, Key("usernamelink", uname)) ELSE d2
        D2(uid, d1) == IF Truthy(uid) THEN Del(d1, Key("userlink", uid[2])) ELSE d1
        Deleted(info) ==
            D3(IF IsNone(info) THEN <<>> ELSE InfoUname(info),
               D2(IF IsNone(info) THEN NoneV ELSE InfoId(info),
                  Del(st, Key("playerlink", Lower(Strip(playername))))))
    IN  Deleted(ReadPlayerLink(st, playername))

\* delete_player_link
DeletePlayerLink(st, playername) ==
    LET D3(uname, d2) == IF uname # <<>> THEN Del(d2, Key("usernamelink", uname)) ELSE d2
        D2(uid, d1) ==
            IF Truthy(uid)
            THEN Del(Del(d1, Key("userlink", uid[2])), Key("usermeta", uid[2]))
            ELSE d1
        Deleted(info) ==
            D3(IF IsNone(info) THEN <<>> ELSE InfoUname(info),
               D2(IF IsNone(info) THEN NoneV ELSE InfoId(info),
                  Del(st, Key("playerlink", Lower(Strip(playername))))))
    IN  Deleted(ReadPlayerLink(st, playername))

\* Any permission bit taken for the administrator bit.
IsAdminAnyBit(perms) == perms # 0

\* (perms & ADMINISTRATOR) == ADMINISTRATOR
IsAdmin(perms) == (perms \div ADMINISTRATOR) % 2 = 1

(***************************************************************************)
(* Inputs of the link commands.                                            *)
(***************************************************************************)
LinkNames == { <<97>>, <<65, 32>>, <<32, 98>>, <<32>> }     \* "a", "A ", " b", " "
UserIds == { <<49>>, <<50>> }                               \* "1", "2"
UserNames == { <<120>>, <<88, 32>>, <<>> }                  \* "x", "X ", ""
Displays == { <<100>> }                                     \* "d"
Perms == { 0, 8, 7 }

\* The environment of a deployment whose SHARED_SECRET is "s".
Secret == <<115>>
Configured == [SHARED_SECRET |-> Secret]

\* The gateway's threads, none yet.
EmptyThreads == [t \in {} |-> "active"]

\* The history of a pair no match event was routed for.
NoHistory == [n |-> 0, clean |-> TRUE, creates |-> 0, first |-> NoneV, inorder |-> TRUE]

IdleLast ==
    [op |-> "init", a |-> <<>>, b |-> <<>>, user |-> <<>>, perms |-> 0,
     res |-> "", val |-> NoneV, gw |-> 0, wr |-> 0, ok |-> TRUE, gwf |-> "none",
     rtrip |-> FALSE, cnt |-> 0]

\* /link (handler.do_POST, cmd == "link")
Link(playername_raw, user_id, display, username) ==
    LET playername == Strip(playername_raw)
        r == SaveLink(store, playername, user_id, display, username)
        rec == [IdleLast EXCEPT !.op = "link", !.a = playername_raw, !.b = username,
                                !.user = user_id]
    IN  /\ IF playername = <<>>
           THEN /\ last' = [rec EXCEPT !.res = "Usage"]
                /\ UNCHANGED <<store, preLink, config>>
           ELSE /\ store' = r.st
                /\ last' = [rec EXCEPT !.res = r.res, !.wr = r.wr]
                /\ preLink' = IF r.ok THEN store ELSE preLink
        /\ UNCHANGED <<threads, nextId, rt, fin, fout, chan, procs, config>>

\* /unlink (handler.do_POST, cmd == "unlink")
Unlink(playername_raw, user_id, perms) ==
    LET playername == Strip(playername_raw)
        info == ReadPlayerLink(store, playername)
        owner_id == InfoId(info)
        is_admin == IsAdmin(perms)
        \* rtrip: this unlink directly follows the successful link of the same
        \* player by the same user
        rec == [IdleLast EXCEPT !.op = "unlink", !.a = playername_raw,
                                !.user = user_id, !.perms = perms]
        follows == /\ last.op = "link" /\ last.res = "Linked" /\ last.user = user_id
                   /\ Lower(Strip(last.a)) = Lower(playername)
    IN  /\ IF playername = <<>>
           THEN /\ last' = [rec EXCEPT !.res = "Usage"]
                /\ UNCHANGED store
           ELSE IF IsNone(info)
           THEN /\ last' = [rec EXCEPT !.res = "NotFound"]
                /\ UNCHANGED store
           ELSE IF Str(user_id) # owner_id /\ ~is_admin
           THEN /\ last' = [rec EXCEPT !.res = "Forbidden"]
                /\ UNCHANGED store
           ELSE /\ store' = DeletePlayerLink(store, playername)
                /\ last' = [rec EXCEPT !.res = "Unlinked", !.rtrip = follows]
        /\ UNCHANGED <<threads, nextId, preLink, rt, fin, fout, chan, procs, config>>

\* /whois (handler.do_POST, cmd == "whois")
Whois(playername_raw) ==
    LET playername == Strip(playername_raw)
        info == ReadPlayerLink(store, playername)
        rec == [IdleLast EXCEPT !.op = "whois", !.a = playername_raw]
    IN  /\ last' = IF playername = <<>> THEN [rec EXCEPT !.res = "Usage"]
                   ELSE IF IsNone(info) THEN [rec EXCEPT !.res = "NotLinked"]
                   ELSE [rec EXCEPT !.res = "Found", !.val = InfoId(info)]
        /\ UNCHANGED <<store, threads, nextId, preLink, rt, fin, fout, chan, procs, config>>

(***************************************************************************)
(* SpecLink: sequential link, unlink and whois commands from an empty      *)
(* store, every store call succeeding.                                     *)
(***************************************************************************)
InitLink ==
    /\ store = EmptyStore
    /\ threads = EmptyThreads
    /\ nextId = 1
    /\ last = IdleLast
    /\ preLink = EmptyStore
    /\ rt = [x \in {} |-> NoHistory]
    /\ chan = <<>>
    /\ config = Configured
    /\ procs = <<>>
    /\ fin = <<>>
    /\ fout = <<>>

LinkStep == \E p \in LinkNames, u \in UserIds, d \in Displays, n \in UserNames :
                Link(p, u, d, n)

UnlinkStep == \E p \in LinkNames, u \in UserIds, perms \in Perms : Unlink(p, u, perms)

WhoisStep == \E p \in LinkNames : Whois(p)

NextLink == LinkStep \/ UnlinkStep \/ WhoisStep

SpecLink == InitLink /\ [][NextLink]_vars

(***************************************************************************)
(* SessionRouter: api/showdown.py                                          *)
(***************************************************************************)
THREAD_AUTO_ARCHIVE_MIN == 60

\* durations = [THREAD_AUTO_ARCHIVE_MIN, 1440, 4320, 10080]
Durations == <<THREAD_AUTO_ARCHIVE_MIN, 1440, 4320, 10080>>

\* _u_get: the stored value, None when the call fails (up = FALSE).
UGet(st, k, up) == IF up THEN Get(st, k) ELSE NoneV

\* _u_del reporting success without deleting the key.
UDelNoDelete(st, k, up) == st

\* _u_del: the store after the call; nothing is deleted when the call fails.
UDel(st, k, up) == IF up THEN Del(st, k) ELSE st

\* _u_set writing the key only when it is absent.
USetIfAbsent(st, k, v, up) == IF up /\ k \notin DOMAIN st THEN Set(st, k, v) ELSE st

\* _u_set reporting success without writing the key.
USetNoWrite(st, k, v, up) == st

\* _u_set: the store after the call; nothing is written when the call fails.
USet(st, k, v, up) == IF up THEN Set(st, k, v) ELSE st

\* _lookup_discord_id returning a bare string or a blob as it is stored,
\* without decoding the blob.
LookupDiscordIdRaw(st, player_name, up) ==
    LET Decoded(val) ==
            IF ~Truthy(val) THEN NoneV
            ELSE IF IsJson(val) THEN Str(<<123>>)
            ELSE val
    IN  Decoded(UGet(st, Key("playerlink", Lower(Strip(player_name))), up))

\* _lookup_discord_id
LookupDiscordId(st, player_name, up) ==
    LET Decoded(val) ==
            IF ~Truthy(val) THEN NoneV
            ELSE IF IsJson(val) THEN (IF val[2][1] = Null THEN NoneV ELSE Str(val[2][1]))
            ELSE IF IsStr(val) /\ val[2][1] = 123 THEN NoneV    \* json.loads raises
            ELSE val
    IN  Decoded(UGet(st, Key("playerlink", Lower(Strip(player_name))), up))

\* _pair_key joining the names in argument order.
PairKeyUnsorted(p1, p2) ==
    Key("threadpair", Lower(Strip(p1)) \o <<124>> \o Lower(Strip(p2)))

\* _pair_key: "threadpair:" a "|" b with a, b the sorted canonical names.
PairKey(p1, p2) ==
    LET Sorted(x, y) == IF StrLeq(x, y) THEN <<x, y>> ELSE <<y, x>>
        Joined(ab) == Key("threadpair", ab[1] \o <<124>> \o ab[2])
    IN  Joined(Sorted(Lower(Strip(p1)), Lower(Strip(p2))))

\* The match flow with the skip test removed.
NeverSkip(id1, id2) == FALSE

\* do_POST line 273: not (id1 or id2)
ShouldSkip(id1, id2) == ~(Truthy(id1) \/ Truthy(id2))

\* The decimal string of a snowflake.
RECURSIVE IdStr(_)
IdStr(n) == IF n < 10 THEN <<48 + n>> ELSE IdStr(n \div 10) \o <<48 + (n % 10)>>

\* What the gateway can answer to the PATCH requests of _ensure_unarchived:
\* i in 1..4 = the i-th duration is the first accepted, 0 = every request is
\* refused with an HTTP error, -1 = a request fails with another error (timeout).
\* A thread that no longer exists is never patched (404).
PatchOutcomes(th, thread_id) ==
    IF thread_id \in DOMAIN th THEN (0..Len(Durations)) \cup {-1} ELSE {0, -1}

\* _ensure_unarchived taking the 404 of a deleted thread for success.
EnsureUnarchivedLenient(th, thread_id, po) ==
    IF po = -1 THEN [ok |-> FALSE, raised |-> TRUE, th |-> th]
    ELSE [ok |-> TRUE, raised |-> FALSE,
          th |-> IF thread_id \in DOMAIN th THEN [th EXCEPT ![thread_id] = "active"] ELSE th]

\* _ensure_unarchived: [ok, raised, th] = the returned flag, whether an error
\* other than HTTPError escaped, the threads after.
EnsureUnarchived(th, thread_id, po) ==
    IF po = -1 THEN [ok |-> FALSE, raised |-> TRUE, th |-> th]
    ELSE IF po >= 1
    THEN [ok |-> TRUE, raised |-> FALSE, th |-> [th EXCEPT ![thread_id] = "active"]]
    ELSE [ok |-> FALSE, raised |-> FALSE, th |-> th]

\* What the gateway can answer to the POST requests of _create_private_thread,
\* read as for PatchOutcomes.
CreateOutcomes == (0..Len(Durations)) \cup {-1}

\* _create_private_thread against a gateway that hands out the same id again.
CreatePrivateThreadSameId(th, nid, co) ==
    IF co = -1 THEN [id |-> NoneV, raised |-> TRUE, th |-> th, nid |-> nid]
    ELSE IF co >= 1
    THEN [id |-> Str(IdStr(1)), raised |-> FALSE,
          th |-> [t \in (DOMAIN th) \cup {IdStr(1)} |-> "active"],
          nid |-> nid + 1]
    ELSE [id |-> NoneV, raised |-> FALSE, th |-> th, nid |-> nid]

\* _create_private_thread: id = the new thread's id, None when no request was
\* accepted.
CreatePrivateThread(th, nid, co) ==
    IF co = -1 THEN [id |-> NoneV, raised |-> TRUE, th |-> th, nid |-> nid]
    ELSE IF co >= 1
    THEN [id |-> Str(IdStr(nid)), raised |-> FALSE,
          th |-> [t \in (DOMAIN th) \cup {IdStr(nid)} |->
                     IF t = IdStr(nid) THEN "active" ELSE th[t]],
          nid |-> nid + 1]
    ELSE [id |-> NoneV, raised |-> FALSE, th |-> th, nid |-> nid]

\* One outcome of the match flow: the response, the state after, and what the
\* handler met: gw = the gateway operations it called (reactivate, create, add
\* member, post message; the retries of one operation with the next duration
\* count once), wr = the store writes it called, ok = every store call it made
\* succeeded, gwf = the gateway failure it met ("none", "patch" = reactivation
\* refused, "create" = create refused, "raise" = an error other than HTTPError).
Out(res, val, gw, wr, ok, gwf, st, th, nid) ==
    [res |-> res, val |-> val, gw |-> gw, wr |-> wr, ok |-> ok, gwf |-> gwf,
     st |-> st, th |-> th, nid |-> nid]

\* do_POST lines 286-289 and 299-302: add the resolved members, post the
\* message, respond; any of these requests may fail with a non-HTTP error, which
\* the handler's except turns into the crash response.
RouteFinish(res, thread_id, nmem, gw, wr, ok, gwf, st, th, nid) ==
    { Out(res, thread_id, gw + nmem + 1, wr, ok, gwf, st, th, nid) }
    \cup { Out("crash", NoneV, gw + k, wr, ok, "raise", st, th, nid) : k \in 1..(nmem + 1) }

\* do_POST lines 291-302: create a new private thread and store the pointer.
RouteCreate(st, th, nid, pair_key, nmem, gw, ok, gwf) ==
    UNION { LET c == CreatePrivateThread(th, nid, co)
            IN  IF c.raised
                THEN { Out("crash", NoneV, gw + 1, 0, ok, "raise", st, th, nid) }
                ELSE IF ~Truthy(c.id)
                THEN { Out("create_failed", NoneV, gw + 1, 0, ok, "create", st, th, nid) }
                ELSE UNION { RouteFinish("new", c.id, nmem, gw + 1, 1, ok /\ so, gwf,
                                         USet(st, pair_key, c.id, so), c.th, c.nid)
                             : so \in BOOLEAN }
            : co \in CreateOutcomes }

\* do_POST lines 282-302: reuse the stored thread if it can be reactivated,
\* else create.
RouteThread(st, th, nid, pair_key, nmem, ok, thread_id) ==
    IF ~Truthy(thread_id) THEN RouteCreate(st, th, nid, pair_key, nmem, 0, ok, "none")
    ELSE UNION { LET r == EnsureUnarchived(th, thread_id[2], po)
                 IN  IF r.raised
                     THEN { Out("crash", NoneV, 1, 0, ok, "raise", st, th, nid) }
                     ELSE IF r.ok
                     THEN RouteFinish("existing", thread_id, nmem, 1, 0, ok, "none",
                                      st, r.th, nid)
                     ELSE RouteCreate(st, th, nid, pair_key, nmem, 1, ok, "patch")
                 : po \in PatchOutcomes(th, thread_id[2]) }

\* do_POST lines 263-302, the match flow: the set of its possible outcomes, one
\* for each way the store and the gateway can answer.
RouteOutcomes(st, th, nid, p1_raw, p2_raw) ==
    LET p1 == Strip(p1_raw)
        p2 == Strip(p2_raw)
    IN  IF p1 = <<>> \/ p2 = <<>>
        THEN { Out("missing", NoneV, 0, 0, TRUE, "none", st, th, nid) }
        ELSE UNION {
            LET id1 == LookupDiscordId(st, p1, g1)
                id2 == LookupDiscordId(st, p2, g2)
                nmem == (IF Truthy(id1) THEN 1 ELSE 0) + (IF Truthy(id2) THEN 1 ELSE 0)
            IN  IF ShouldSkip(id1, id2)
                THEN { Out("skipped", NoneV, 0, 0, g1 /\ g2, "none", st, th, nid) }
                ELSE UNION { RouteThread(st, th, nid, PairKey(p1, p2), nmem, g1 /\ g2 /\ g3,
                                         UGet(st, PairKey(p1, p2), g3))
                             : g3 \in BOOLEAN }
            : g1 \in BOOLEAN, g2 \in BOOLEAN }

(***************************************************************************)
(* AnnouncementCoordinator: the status banner of api/showdown.py           *)
(***************************************************************************)
LFG_MESSAGE_TEXT == <<76>>                                  \* the banner text, "L"
MAX_PAGES == 5
ListLimit == 100

\* DISCORD_LFG_CHANNEL_ID
LfgChannel == <<99>>

\* _lfg_key
LfgKey(channel_id) == Key("lfgmsg", channel_id)

\* The number a decimal string writes.
RECURSIVE IdNum(_)
IdNum(s) == IF s = <<>> THEN 0 ELSE 10 * IdNum(SubSeq(s, 1, Len(s) - 1)) + (s[Len(s)] - 48)

Min(x, y) == IF x <= y THEN x ELSE y
Max(x, y) == IF x >= y THEN x ELSE y

\* The channel without the message of that id.
Without(ch, message_id) == SelectSeq(ch, LAMBDA m : m.id # message_id)

\* The messages of ch whose content is the text.
Copies(ch, content) == SelectSeq(ch, LAMBDA m : m.content = content)

\* What the gateway can answer to one request: it serves it, refuses it with an
\* HTTP error, or the request fails otherwise (timeout, connection error).
Answers == {"ok", "http", "raise"}

\* _list_messages: the most recent messages older than before (<<>> = None), at
\* most min(max(limit, 1), 100) of them; [] when the gateway refuses with an
\* HTTP error; another error leaves the function (raised).
ListMessages(ch, limit, before, l) ==
    IF l = "raise" THEN [msgs |-> <<>>, raised |-> TRUE]
    ELSE IF l = "http" THEN [msgs |-> <<>>, raised |-> FALSE]
    ELSE LET older == SelectSeq(ch, LAMBDA m : before = <<>> \/ IdNum(m.id) < IdNum(before))
         IN  [msgs |-> SubSeq(older, 1, Min(Min(Max(limit, 1), 100), Len(older))),
              raised |-> FALSE]

\* _post_message returning the id of a message the channel does not show.
PostMessageLost(ch, nid, content, p) ==
    IF p = "raise" THEN [id |-> NoneV, raised |-> TRUE, ch |-> ch, nid |-> nid]
    ELSE IF p = "http" THEN [id |-> NoneV, raised |-> FALSE, ch |-> ch, nid |-> nid]
    ELSE [id |-> Str(IdStr(nid)), raised |-> FALSE, ch |-> ch, nid |-> nid + 1]

\* _post_message: id = the id of the posted message, None when refused.
PostMessage(ch, nid, content, p) ==
    IF p = "raise" THEN [id |-> NoneV, raised |-> TRUE, ch |-> ch, nid |-> nid]
    ELSE IF p = "http" THEN [id |-> NoneV, raised |-> FALSE, ch |-> ch, nid |-> nid]
    ELSE [id |-> Str(IdStr(nid)), raised |-> FALSE,
          ch |-> <<[id |-> IdStr(nid), content |-> content]>> \o ch, nid |-> nid + 1]

\* _delete_message: True when the gateway serves the request, which deletes the
\* message or finds it already gone (404); False when it refuses with another
\* HTTP error, whether or not the channel has the message; another error
\* leaves the function (raised).
DeleteMessage(ch, message_id, d) ==
    IF d = "raise" THEN [ok |-> FALSE, raised |-> TRUE, ch |-> ch]
    ELSE IF d = "http" THEN [ok |-> FALSE, raised |-> FALSE, ch |-> ch]
    ELSE [ok |-> TRUE, raised |-> FALSE, ch |-> Without(ch, message_id)]

\* One outcome of a status event: the response (res, val = message id, cnt =
\* the returned count), the state after, gw = the gateway requests made, wr =
\* the store writes called, ok = every store call succeeded, gwf = the gateway
\* failure met ("none", "http", "raise").
LfgOut(res, val, cnt, gw, wr, ok, gwf, st, ch, nid) ==
    [res |-> res, val |-> val, cnt |-> cnt, gw |-> gw, wr |-> wr, ok |-> ok, gwf |-> gwf,
     st |-> st, ch |-> ch, nid |-> nid]

\* _ensure_lfg_message never finding its pointer.
HasPointerNever(msg_id) == FALSE

\* _ensure_lfg_message line 178: if msg_id
HasPointer(msg_id) == Truthy(msg_id)

\* _ensure_lfg_message: its outcomes, one for each way the store and the
\* gateway can answer.  An error other than HTTPError escapes to do_POST, which
\* answers crash.
EnsureLfgMessage(st, ch, nid, channel_id, content) ==
    UNION {
        LET msg_id == UGet(st, LfgKey(channel_id), g)
        IN  IF HasPointer(msg_id)
            THEN { LfgOut("exists", msg_id, 0, 0, 0, g, "none", st, ch, nid) }
            ELSE UNION {
                LET obj == PostMessage(ch, nid, content, p)
                IN  IF obj.raised
                    THEN { LfgOut("crash", NoneV, 0, 1, 0, g, "raise", st, ch, nid) }
                    ELSE IF Truthy(obj.id)
                    THEN { LfgOut("created", obj.id, 0, 1, 1, g /\ so, "none",
                                  USet(st, LfgKey(channel_id), obj.id, so), obj.ch, obj.nid)
                           : so \in BOOLEAN }
                    ELSE { LfgOut("error", NoneV, 0, 1, 0, g, "http", st, ch, nid) }
                : p \in Answers }
        : g \in BOOLEAN }

\* _clear_lfg_message, the loop over the messages of one page: acc = [ch,
\* deleted, gw, gwf] = the channel, total_deleted, the gateway requests made and
\* the gateway failure met so far.  The outcomes, one for each way the gateway
\* can answer each DELETE; an error raised ends the loop.
RECURSIVE ScanPage(_, _, _, _)
ScanPage(acc, msgs, i, content) ==
    IF i > Len(msgs) \/ acc.gwf = "raise" THEN {acc}
    ELSE IF msgs[i].content # content THEN ScanPage(acc, msgs, i + 1, content)
    ELSE UNION {
        LET r == DeleteMessage(acc.ch, msgs[i].id, d)
        IN  ScanPage([ch |-> r.ch,
                      deleted |-> acc.deleted + (IF r.ok THEN 1 ELSE 0),
                      gw |-> acc.gw + 1,
                      gwf |-> IF r.raised THEN "raise" ELSE IF r.ok THEN acc.gwf ELSE "http"],
                     msgs, i + 1, content)
        : d \in Answers }

\* _clear_lfg_message, the loop over at most MAX_PAGES pages: the outcomes, one
\* for each way the gateway can answer each listing and each DELETE; an error
\* raised by a listing ends the loop (gwf = "raise").
RECURSIVE ScanPages(_, _, _, _)
ScanPages(acc, before, pages, content) ==
    IF pages = 0 \/ acc.gwf = "raise" THEN {acc}
    ELSE UNION {
        LET l == ListMessages(acc.ch, ListLimit, before, ls)
            a1 == [acc EXCEPT !.gw = @ + 1,
                              !.gwf = IF l.raised THEN "raise"
                                      ELSE IF ls = "ok" THEN @ ELSE "http"]
        IN  IF l.raised \/ l.msgs = <<>> THEN {a1}
            ELSE UNION { ScanPages(a2, l.msgs[Len(l.msgs)].id, pages - 1, content)
                         : a2 \in ScanPage(a1, l.msgs, 1, content) }
        : ls \in Answers }

\* The count _clear_lfg_message returns: total_deleted, the deletes of the scan.
ClearCount(tracked_deleted, total_deleted) == total_deleted

\* _clear_lfg_message: its outcomes, one for each way the store and the gateway
\* can answer (g: the GET, dt: the delete of the tracked message, scan: the
\* listings and the deletes of the scan, ud: the DEL).
ClearLfgMessage(st, ch, nid, channel_id, content) ==
    UNION {
        LET tracked_id == UGet(st, LfgKey(channel_id), g)
            t == IF Truthy(tracked_id) THEN DeleteMessage(ch, tracked_id[2], dt)
                 ELSE [ok |-> TRUE, raised |-> FALSE, ch |-> ch]
            gw0 == IF Truthy(tracked_id) THEN 1 ELSE 0
            a0 == [ch |-> t.ch, deleted |-> 0, gw |-> gw0,
                   gwf |-> IF t.ok THEN "none" ELSE "http"]
        IN  IF t.raised
            THEN { LfgOut("crash", NoneV, 0, gw0, 0, g, "raise", st, ch, nid) }
            ELSE UNION {
                IF scan.gwf = "raise"
                THEN { LfgOut("crash", NoneV, 0, scan.gw, 0, g, "raise", st, scan.ch, nid) }
                ELSE { LfgOut("deleted_all", NoneV,
                              ClearCount(Len(ch) - Len(t.ch), scan.deleted),
                              scan.gw, 1, g /\ ud, scan.gwf,
                              UDel(st, LfgKey(channel_id), ud), scan.ch, nid)
                       : ud \in BOOLEAN }
                : scan \in ScanPages(a0, <<>>, MAX_PAGES, content) }
        : g \in BOOLEAN, dt \in Answers }

\* The isLooking field of a status event: a boolean, an integer, a float (given
\* by t = the integer int() truncates it to: 0 for 0.5, 1 for 1.5 or 1.0), a
\* float that is not finite (NaN, Infinity, -Infinity, which json.loads
\* accepts), a string, absent (or null), or another JSON value.
JBool(b) == <<"bool", b>>
JInt(n) == <<"int", n>>
JFloat(t) == <<"float", t>>
JNonFinite == <<"nonfinite">>
JStr(x) == <<"str", x>>
JAbsent == <<"absent">>
JOther == <<"other">>

\* do_POST lines 249-256: val = is_looking; raised = int(v) raises (ValueError
\* or OverflowError), which do_POST answers with crash.
IsLooking(v) ==
    [raised |-> v[1] = "nonfinite",
     val |-> IF v[1] = "bool" THEN v[2]
             ELSE IF v[1] \in {"int", "float"} THEN v[2] # 0
             ELSE IF v[1] = "str"
             THEN Lower(Strip(v[2])) \in { <<116, 114, 117, 101>>, <<49>>, <<121, 101, 115>>,
                                           <<121>> }
             ELSE FALSE]

\* The key under which rt keeps the history of the status channel (a set, as
\* the keys of the pairs are).
LfgHistoryKey == {LfgChannel}

\* The history of the status channel kept for the claims: since the last clear
\* (or the start), n = 1 once an ensure ran, clean = the clear and every ensure
\* since had all its store and gateway calls succeed, posts = the messages the
\* ensures posted, first = the first ensure's message, inorder = the first
\* ensure answered created and every later one exists with that message and
\* without a gateway request; pure = since the start every call of every status
\* event succeeded and nobody else posted the banner text.
NoLfgHistory ==
    [n |-> 0, clean |-> TRUE, posts |-> 0, first |-> NoneV, inorder |-> TRUE, pure |-> TRUE]

NextLfgHistory(old, o, is_looking, posted) ==
    LET callclean == o.ok /\ o.gwf = "none"
        pure == old.pure /\ callclean
    IN  IF ~is_looking
        THEN [NoLfgHistory EXCEPT !.clean = callclean, !.pure = pure]
        ELSE IF ~old.clean \/ ~callclean
        THEN [NoLfgHistory EXCEPT !.n = 1, !.clean = FALSE, !.pure = pure]
        ELSE [n |-> 1, clean |-> TRUE,
              posts |-> old.posts + (IF posted THEN 1 ELSE 0),
              first |-> IF old.n = 0 THEN o.val ELSE old.first,
              inorder |-> /\ old.inorder
                          /\ IF old.n = 0 THEN o.res = "created"
                             ELSE o.res = "exists" /\ o.val = old.first /\ o.gw = 0,
              pure |-> pure]

\* The status webhook (handler.do_POST of api/showdown.py, service queuestatus)
\* with the channel configured.  When int(isLooking) raises, do_POST answers
\* crash before any store or gateway request.
StatusEvent(v) ==
    LET is_looking == IsLooking(v).val
        outs == IF is_looking
                THEN EnsureLfgMessage(store, chan, nextId, LfgChannel, LFG_MESSAGE_TEXT)
                ELSE ClearLfgMessage(store, chan, nextId, LfgChannel, LFG_MESSAGE_TEXT)
    IN  IF IsLooking(v).raised
        THEN /\ last' = [IdleLast EXCEPT !.op = "status", !.a = v, !.res = "crash"]
             /\ UNCHANGED <<store, threads, nextId, preLink, rt, fin, fout, chan, procs,
                            config>>
        ELSE \E o \in outs :
                 /\ o.nid <= MaxMsgs + 1
                 /\ store' = o.st
                 /\ chan' = o.ch
                 /\ nextId' = o.nid
                 /\ last' = [IdleLast EXCEPT !.op = "status", !.a = v, !.res = o.res,
                                             !.val = o.val, !.cnt = o.cnt, !.gw = o.gw,
                                             !.wr = o.wr, !.ok = o.ok, !.gwf = o.gwf]
                 /\ rt' = [rt EXCEPT ![LfgHistoryKey] =
                              NextLfgHistory(@, o, is_looking, o.nid # nextId)]
                 /\ UNCHANGED <<threads, preLink, fin, fout, procs, config>>

\* Somebody else posts a message in the status channel.
UserPost(content) ==
    /\ nextId <= MaxMsgs
    /\ chan' = <<[id |-> IdStr(nextId), content |-> content]>> \o chan
    /\ nextId' = nextId + 1
    /\ rt' = [rt EXCEPT ![LfgHistoryKey].pure = @ /\ content # LFG_MESSAGE_TEXT]
    /\ UNCHANGED <<store, threads, last, preLink, fin, fout, procs, config>>

(***************************************************************************)
(* RetentionSweeper: api/cleanup_threads.py                                *)
(*                                                                         *)
(* Instants are counted in milliseconds from DISCORD_EPOCH_MS              *)
(* (1420070400000, beyond the integers of the model checker):              *)
(* _snowflake_ms adds the epoch to both sides of every comparison the      *)
(* sweep makes.  The 0 that _snowflake_ms returns for an id that is not a  *)
(* number is written NoInstant.                                            *)
(***************************************************************************)
THREAD_MAX_AGE_SECONDS == 172800

\* The 0 _snowflake_ms returns when int() raises lies DISCORD_EPOCH_MS below the
\* epoch: NoInstant, the least instant of the model, below the instant of every
\* id the model draws.
NoInstant == -2147483647

\* The code points of the digit zero of the decimal digits of Unicode 14.0
\* (category Nd); the nine code points after each are its digits one to nine.
DecimalZeros ==
    {
      48, 1632, 1776, 1984, 2406, 2534, 2662, 2790, 2918, 3046,
      3174, 3302, 3430, 3558, 3664, 3792, 3872, 4160, 4240, 6112,
      6160, 6470, 6608, 6784, 6800, 6992, 7088, 7232, 7248, 42528,
      43216, 43264, 43472, 43504, 43600, 44016, 65296, 66720, 68912, 69734,
      69872, 69942, 70096, 70384, 70736, 70864, 71248, 71360, 71472, 71904,
      72016, 72784, 73040, 73120, 92768, 92864, 93008, 120782, 120792, 120802,
      120812, 120822, 123200, 123632, 125264, 130032
    }

\* The value of the decimal digit c, -1 when c is not a decimal digit.
DigitValue(c) ==
    IF c \in 48..57 THEN c - 48
    ELSE IF c < 128 THEN -1
    ELSE IF \E z \in DecimalZeros : c \in z..(z + 9)
    THEN c - (CHOOSE z \in DecimalZeros : c \in z..(z + 9))
    ELSE -1

\* The white space int() skips around a number: that of str.strip() but for the
\* separators U+001C to U+001F.
IsIntSpace(c) == IsSpace(c) /\ c \notin 28..31

\* The text of a number without the white space around it.
IntTrim(s) ==
    IF \A i \in 1..Len(s) : IsIntSpace(s[i]) THEN <<>>
    ELSE SubSeq(s,
                CHOOSE i \in 1..Len(s) :
                    ~IsIntSpace(s[i]) /\ \A j \in 1..(i - 1) : IsIntSpace(s[j]),
                CHOOSE i \in 1..Len(s) :
                    ~IsIntSpace(s[i]) /\ \A j \in (i + 1)..Len(s) : IsIntSpace(s[j]))

\* sys.int_max_str_digits: int() raises on a text of more digits (leading zeros
\* count, underscores, the sign and the white space do not).
INT_MAX_STR_DIGITS == 4300

\* What is left of the text of a number without its white space and its sign.
IntDigits(x) ==
    LET t == IntTrim(x)
    IN  IF t # <<>> /\ t[1] \in {43, 45} THEN Tail(t) ELSE t

\* The number that the first k of the digits and underscores d write.
RECURSIVE DigitsNum(_, _)
DigitsNum(d, k) ==
    IF \A i \in 1..k : d[i] = 95 \/ DigitValue(d[i]) = 0 THEN 0      \* zeros write 0
    ELSE IF d[k] = 95 THEN DigitsNum(d, k - 1)
    ELSE 10 * DigitsNum(d, k - 1) + DigitValue(d[k])

\* int(x) does not raise: x is, between white space, an optional sign and
\* decimal digits, at most INT_MAX_STR_DIGITS of them, with single underscores
\* between digits.
IsDecimal(x) ==
    \E d \in {IntDigits(x)} :
        /\ d # <<>>
        /\ Cardinality({i \in 1..Len(d) : d[i] # 95}) <= INT_MAX_STR_DIGITS
        /\ \A i \in 1..Len(d) : DigitValue(d[i]) >= 0 \/ d[i] = 95
        /\ d[1] # 95 /\ d[Len(d)] # 95
        /\ \A i \in 1..(Len(d) - 1) : ~(d[i] = 95 /\ d[i + 1] = 95)

\* int(x) where it does not raise.
IntValue(x) ==
    CHOOSE v \in { IF t # <<>> /\ t[1] = 45 THEN 0 - DigitsNum(Tail(t), Len(t) - 1)
                   ELSE IF t # <<>> /\ t[1] = 43 THEN DigitsNum(Tail(t), Len(t) - 1)
                   ELSE DigitsNum(t, Len(t))
                   : t \in {IntTrim(x)} } : TRUE

\* _snowflake_ms: int(snowflake) >> 22, NoInstant when int() raises.
SnowflakeMs(snowflake) ==
    IF IsDecimal(snowflake) THEN IntValue(snowflake) \div 4194304 ELSE NoInstant

\* _cleanup lines 117-118: cutoff_ms
CutoffMs(now_ms, max_age_seconds) == now_ms - (max_age_seconds * 1000)

\* The ids of S as a sequence, the most recent (largest) first.
RECURSIVE SeqDesc(_)
SeqDesc(S) ==
    IF S = {} THEN <<>>
    ELSE LET m == CHOOSE x \in S : \A y \in S : IdNum(y) <= IdNum(x)
         IN  <<m>> \o SeqDesc(S \ {m})

\* The keys of S as a sequence, in the order of their bodies.
RECURSIVE SeqKeys(_)
SeqKeys(S) ==
    IF S = {} THEN <<>>
    ELSE LET m == CHOOSE x \in S : \A y \in S : StrLeq(x[2], y[2])
         IN  <<m>> \o SeqKeys(S \ {m})

\* What the gateway can answer to a listing of threads: it serves it, refuses it
\* with an HTTP error, or the request fails otherwise (timeout, connection
\* error).
ListAnswers == {"ok", "http", "raise"}

\* _list_active_threads: the ids of the active threads; [] when refused with an
\* HTTP error; another error leaves the function (raised).
ListActiveThreads(th, l) ==
    IF l = "raise" THEN [threads |-> <<>>, raised |-> TRUE]
    ELSE IF l = "http" THEN [threads |-> <<>>, raised |-> FALSE]
    ELSE [threads |-> SeqDesc({t \in DOMAIN th : th[t] = "active"}), raised |-> FALSE]

\* _list_private_archived: one page of the archived threads older than
\* before_id (None or "" = from the most recent) and has_more; ([], False) when
\* refused with an HTTP error; another error leaves the function (raised).
ListPrivateArchived(th, before_id, l) ==
    LET all == SeqDesc({t \in DOMAIN th : /\ th[t] = "archived"
                                          /\ ~Truthy(before_id) \/ IdNum(t) < IdNum(before_id[2])})
    IN  IF l = "raise" THEN [threads |-> <<>>, has_more |-> FALSE, raised |-> TRUE]
        ELSE IF l = "http" THEN [threads |-> <<>>, has_more |-> FALSE, raised |-> FALSE]
        ELSE [threads |-> SubSeq(all, 1, Min(ArchivedPageSize, Len(all))),
              has_more |-> Len(all) > ArchivedPageSize, raised |-> FALSE]

\* What the gateway can answer to a DELETE of a thread: it serves it (deleting
\* the thread, or answering 404 when the thread is gone), refuses with 403,
\* refuses with another HTTP error, or the request fails otherwise (timeout,
\* connection error).
DeleteAnswers == {"ok", "403", "500", "raise"}

\* A _delete_thread whose served DELETE leaves the thread in place.
CleanupDeleteThreadKeeps(th, thread_id, d) ==
    IF d = "raise" THEN [ok |-> FALSE, raised |-> TRUE, th |-> th]
    ELSE [ok |-> d \in {"ok", "403"}, raised |-> FALSE, th |-> th]

\* _delete_thread: True when deleted, or on 404 or 403.
CleanupDeleteThread(th, thread_id, d) ==
    IF d = "raise" THEN [ok |-> FALSE, raised |-> TRUE, th |-> th]
    ELSE IF d = "ok"
    THEN [ok |-> TRUE, raised |-> FALSE, th |-> [x \in (DOMAIN th) \ {thread_id} |-> th[x]]]
    ELSE [ok |-> d = "403", raised |-> FALSE, th |-> th]

\* _u_scan line 104: the loop ends after its 101st request (tries > 100).
SCAN_MAX_TRIES == 101

\* The requests _u_scan sends when the store serves them all: one for each page
\* of ScanPageSize keys (the last carries the cursor 0), one when there is no
\* key, at most SCAN_MAX_TRIES.
ScanRequests(st, prefix) ==
    LET n == Cardinality({k \in DOMAIN st : k[1] = prefix})
    IN  Min(Max(1, (n + ScanPageSize - 1) \div ScanPageSize), SCAN_MAX_TRIES)

\* Every request of the scan is served: sc = the request the store fails (HTTP
\* error, timeout, a body that is not JSON), 0 = none.
ScanServed(st, prefix, sc) == sc \notin 1..ScanRequests(st, prefix)

\* _u_scan: the keys with the prefix, page after page (the store hands them out
\* in the order of the keys); a request that fails ends the loop, and the keys
\* read before it are returned.
UScan(st, prefix, sc) ==
    LET keys == SeqKeys({k \in DOMAIN st : k[1] = prefix})
        served == IF ScanServed(st, prefix, sc) THEN ScanRequests(st, prefix) ELSE sc - 1
    IN  SubSeq(keys, 1, Min(Len(keys), served * ScanPageSize))

\* The answers of the gateway and the store to one sweep: la, lp = the answer to
\* the active and to the archived listings, sc = the request of the scan that
\* fails (0 = none), g = the GETs are served, bad, kind = the thread whose
\* DELETE is answered kind (every other is "ok").  At most one of the listings
\* and store calls fails in a sweep.
SweepEnvs(ids) ==
    { e \in [la : ListAnswers, lp : ListAnswers, sc : 0..MaxScanFail, g : BOOLEAN,
             bad : ids \cup {<<>>}, kind : DeleteAnswers \ {"ok"}] :
          Cardinality({x \in {<<1, e.la = "ok">>, <<2, e.lp = "ok">>, <<3, e.sc = 0>>,
                              <<4, e.g>>} : ~x[2]}) <= 1 }

\* Every listing and store call of the sweep over the store st is served.
ListingsServed(env, st) ==
    env.la = "ok" /\ env.lp = "ok" /\ ScanServed(st, "threadpair", env.sc) /\ env.g

DeleteAnswer(env, tid) == IF tid = env.bad THEN env.kind ELSE "ok"

\* The state of a sweep under way: the threads, the counters, the DELETE calls
\* issued so far (calls), and whether an error other than HTTPError was raised.
SweepStart(th) ==
    [th |-> th, inspected |-> 0, deleted |-> 0, errors |-> 0, calls |-> <<>>,
     raised |-> FALSE]

\* The body of the three loops of _cleanup for one candidate (lines 127-132).
InspectCandidate(acc, tid, cutoff_ms, env) ==
    LET a1 == [acc EXCEPT !.inspected = @ + 1]
        Deleted(r) == [a1 EXCEPT !.th = r.th,
                                 !.calls = Append(@, tid),
                                 !.deleted = @ + (IF r.ok THEN 1 ELSE 0),
                                 !.errors = @ + (IF ~r.ok /\ ~r.raised THEN 1 ELSE 0),
                                 !.raised = r.raised]
        Inspected(created_ms) ==
            IF created_ms # NoInstant /\ created_ms < cutoff_ms
            THEN Deleted(CleanupDeleteThread(a1.th, tid, DeleteAnswer(env, tid)))
            ELSE a1
    IN  Inspected(SnowflakeMs(tid))

\* for th in <listing>: the loop stops where an error is raised.
RECURSIVE SweepThreads(_, _, _, _, _)
SweepThreads(acc, list, i, cutoff_ms, env) ==
    IF i > Len(list) \/ acc.raised THEN acc
    ELSE SweepThreads(InspectCandidate(acc, list[i], cutoff_ms, env), list, i + 1,
                      cutoff_ms, env)

\* _cleanup lines 135-149: the archived pages, with before = the last id of the
\* page before.
RECURSIVE SweepArchived(_, _, _, _)
SweepArchived(acc, before_id, cutoff_ms, env) ==
    LET Paged(pg, a2) ==
            IF ~pg.has_more \/ a2.raised THEN a2
            ELSE SweepArchived(a2, Str(pg.threads[Len(pg.threads)]), cutoff_ms, env)
        Listed(pg) ==
            IF pg.raised THEN [acc EXCEPT !.raised = TRUE]
            ELSE IF pg.threads = <<>> THEN acc
            ELSE Paged(pg, SweepThreads(acc, pg.threads, 1, cutoff_ms, env))
    IN  Listed(ListPrivateArchived(acc.th, before_id, env.lp))

\* _cleanup lines 153-166: the stored pointers, each thread id once (seen); an
\* error raised here ends the loop and is logged.
RECURSIVE SweepPointers(_, _, _, _, _, _, _)
SweepPointers(acc, seen, keys, i, st, cutoff_ms, env) ==
    IF i > Len(keys) \/ acc.raised THEN acc
    ELSE LET tid == UGet(st, keys[i], env.g)
         IN  IF ~Truthy(tid) \/ tid[2] \in seen
             THEN SweepPointers(acc, seen, keys, i + 1, st, cutoff_ms, env)
             ELSE SweepPointers(InspectCandidate(acc, tid[2], cutoff_ms, env),
                                seen \cup {tid[2]}, keys, i + 1, st, cutoff_ms, env)

\* _cleanup: res = "ok" with the counters when it returns, "crash" when an error
\* escapes it (do_GET has no handler for it); aborted = the pointer loop was
\* ended by an error.
Cleanup(st, th, now_ms, max_age_seconds, env) ==
    LET cutoff_ms == CutoffMs(now_ms, max_age_seconds)
        \* a1, a2, a3 = the sweep after the active threads, after the archived
        \* pages, after the pointers
        Returned(a2, a3) ==
            [res |-> IF a2.raised THEN "crash" ELSE "ok",
             inspected |-> a3.inspected, deleted |-> a3.deleted, errors |-> a3.errors,
             calls |-> a3.calls, th |-> a3.th, aborted |-> a3.raised,
             cutoff_ms |-> cutoff_ms]
        Pointers(a2) ==
            Returned(a2, IF a2.raised THEN a2
                         ELSE SweepPointers(a2, {}, UScan(st, "threadpair", env.sc), 1, st,
                                            cutoff_ms, env))
        Archived(a1) ==
            Pointers(IF a1.raised THEN a1 ELSE SweepArchived(a1, NoneV, cutoff_ms, env))
        Active(active) ==
            Archived(IF active.raised THEN [SweepStart(th) EXCEPT !.raised = TRUE]
                     ELSE SweepThreads(SweepStart(th), active.threads, 1, cutoff_ms, env))
    IN  Active(ListActiveThreads(th, env.la))

\* A sweep that also deletes the pair pointers it has read.
SweepDropsPointers(now_ms, env) ==
    \E r \in {Cleanup(store, threads, now_ms, THREAD_MAX_AGE_SECONDS, env)} :
        /\ threads' = r.th
        /\ store' = [k \in {x \in DOMAIN store : x[1] # "threadpair"} |-> store[k]]
        /\ last' = [op |-> "sweep", res |-> r.res, inspected |-> r.inspected,
                    deleted |-> r.deleted, errors |-> r.errors, calls |-> r.calls,
                    aborted |-> r.aborted, cutoff_ms |-> r.cutoff_ms,
                    lok |-> ListingsServed(env, store),
                    failed |-> IF \E i \in 1..Len(r.calls) : r.calls[i] = env.bad
                               THEN <<env.bad, env.kind>> ELSE <<>>]
        /\ UNCHANGED <<nextId, preLink, rt, fin, fout, chan, procs, config>>

\* The cleanup trigger (handler.do_GET of api/cleanup_threads.py) with the
\* secret matching and the channel configured.
Sweep(now_ms, env) ==
    \E r \in {Cleanup(store, threads, now_ms, THREAD_MAX_AGE_SECONDS, env)} :
        /\ threads' = r.th
        /\ last' = [op |-> "sweep", res |-> r.res, inspected |-> r.inspected,
                    deleted |-> r.deleted, errors |-> r.errors, calls |-> r.calls,
                    aborted |-> r.aborted, cutoff_ms |-> r.cutoff_ms,
                    \* lok = every listing and store call was served; failed =
                    \* the thread whose DELETE calls were not served and the
                    \* answer they got
                    lok |-> ListingsServed(env, store),
                    failed |-> IF \E i \in 1..Len(r.calls) : r.calls[i] = env.bad
                               THEN <<env.bad, env.kind>> ELSE <<>>]
        /\ UNCHANGED <<store, nextId, preLink, rt, fin, fout, chan, procs, config>>

(***************************************************************************)
(* History of the match events of a pair, kept for the claims: the pair is *)
(* the set of its two canonical names.                                     *)
(***************************************************************************)
PairOf(p1_raw, p2_raw) == {Lower(Strip(p1_raw)), Lower(Strip(p2_raw))}

\* The player resolves to a linked user in st.
IsLinked(st, p_raw) ==
    Truthy(InfoId(ReadPlayerLink(st, p_raw)))

Dirty == [n |-> 1, clean |-> FALSE, creates |-> 0, first |-> NoneV, inorder |-> TRUE]

HistoryOf(h, pair) == IF pair \in DOMAIN h THEN h[pair] ELSE NoHistory

\* The history after one more event of the pair with outcome o.  The event is
\* clean when a player was linked, every store call succeeded and the gateway
\* refused or failed no request; once an event was not clean the history is
\* dropped.  n is 1 once an event was routed, creates counts the calls of
\* _create_private_thread, first is the first event's thread and inorder says
\* that the first event answered new_thread and every later one
\* existing_thread with that thread.
NextHistory(old, o, linked, created) ==
    IF ~old.clean \/ ~linked \/ ~o.ok \/ o.gwf # "none" THEN Dirty
    ELSE [n |-> 1,
          clean |-> TRUE,
          creates |-> old.creates + (IF created THEN 1 ELSE 0),
          first |-> IF old.n = 0 THEN o.val ELSE old.first,
          inorder |-> /\ old.inorder
                      /\ IF old.n = 0 THEN o.res = "new"
                         ELSE o.res = "existing" /\ o.val = old.first]

\* The match webhook (handler.do_POST of api/showdown.py, default service).
RouteMatch(p1_raw, p2_raw) ==
    \E o \in RouteOutcomes(store, threads, nextId, p1_raw, p2_raw) :
        /\ o.nid <= MaxThreads + 1
        /\ store' = o.st
        /\ threads' = o.th
        /\ nextId' = o.nid
        /\ last' = [IdleLast EXCEPT !.op = "route", !.a = p1_raw, !.b = p2_raw,
                                    !.res = o.res, !.val = o.val, !.gw = o.gw,
                                    !.wr = o.wr, !.ok = o.ok, !.gwf = o.gwf]
        /\ rt' = IF o.res = "missing" THEN rt
                 ELSE LET pair == PairOf(p1_raw, p2_raw)
                      IN  [x \in (DOMAIN rt) \cup {pair} |->
                              IF x = pair
                              THEN NextHistory(HistoryOf(rt, pair), o,
                                               IsLinked(store, p1_raw) \/ IsLinked(store, p2_raw),
                                               o.nid # nextId)
                              ELSE rt[x]]
        /\ UNCHANGED <<preLink, fin, fout, chan, procs, config>>

\* The platform archives an idle thread (its auto-archive timeout).
ArchiveThread(t) ==
    /\ t \in DOMAIN threads /\ threads[t] = "active"
    /\ threads' = [threads EXCEPT ![t] = "archived"]
    /\ UNCHANGED <<store, nextId, last, preLink, rt, fin, fout, chan, procs, config>>

\* A thread is deleted behind the router's back (a retention sweep, a moderator).
DeleteThread(t) ==
    /\ t \in DOMAIN threads
    /\ threads' = [x \in (DOMAIN threads) \ {t} |-> threads[x]]
    /\ UNCHANGED <<store, nextId, last, preLink, rt, fin, fout, chan, procs, config>>

(***************************************************************************)
(* SpecRoute: sequential match events and unlink commands over a store     *)
(* that holds the links of two earlier link commands, with the platform    *)
(* archiving and deleting threads.                                         *)
(***************************************************************************)
RouteNames == { <<97>>, <<32, 65>>, <<98>>, <<32>> }        \* "a", " A", "b", " "

LinkedA == SaveLink(EmptyStore, <<65, 32>>, <<49>>, <<100>>, <<120>>).st
LinkedAB == SaveLink(LinkedA, <<98>>, <<50>>, <<100>>, <<>>).st

InitRoute ==
    /\ store = LinkedAB
    /\ threads = EmptyThreads
    /\ nextId = 1
    /\ last = IdleLast
    /\ preLink = EmptyStore
    /\ rt = [x \in {} |-> NoHistory]
    /\ chan = <<>>
    /\ config = Configured
    /\ procs = <<>>
    /\ fin = <<>>
    /\ fout = <<>>

\* The requests are sequential: one is handled when the response of the one
\* before was delivered.
Idle == last.op = "init"

\* The response of the last request is delivered.
Respond ==
    /\ ~Idle
    /\ last' = IdleLast
    /\ UNCHANGED <<store, threads, nextId, preLink, rt, fin, fout, chan, procs, config>>

\* The two players of an event are drawn as two different raw names: the
\* pairs are then {a} (a against A) and {a, b}, in both orders.
RouteStep ==
    /\ Idle
    /\ \E p1 \in RouteNames : \E p2 \in RouteNames \ {p1} : RouteMatch(p1, p2)

RouteUnlinkStep == Idle /\ \E u \in UserIds : Unlink(<<97>>, u, 0)

ArchiveStep == Idle /\ \E t \in DOMAIN threads : ArchiveThread(t)

DeleteStep == Idle /\ \E t \in DOMAIN threads : DeleteThread(t)

NextRoute == RouteStep \/ RouteUnlinkStep \/ ArchiveStep \/ DeleteStep \/ Respond

SpecRoute == InitRoute /\ [][NextRoute]_vars

(***************************************************************************)
(* SpecLfg: sequential status events on the configured channel, from an    *)
(* empty channel with no pointer, with other messages posted in between.   *)
(***************************************************************************)
StatusShapes ==
    { JBool(TRUE), JBool(FALSE), JInt(0), JInt(1), JInt(2), JFloat(0), JFloat(1),
      JNonFinite,
      JStr(<<116, 114, 117, 101>>), JStr(<<32, 89>>), JStr(<<102, 97, 108, 115, 101>>),
      JStr(<<109>>), JAbsent, JOther }          \* "true", " Y", "false", "m"

Contents == { LFG_MESSAGE_TEXT, <<111>> }                   \* the banner text, "o"

InitLfg ==
    /\ store = EmptyStore
    /\ threads = EmptyThreads
    /\ nextId = 1
    /\ last = IdleLast
    /\ preLink = EmptyStore
    /\ rt = [x \in {LfgHistoryKey} |-> NoLfgHistory]
    /\ fin = <<>>
    /\ fout = <<>>
    /\ chan = <<>>
    /\ config = Configured
    /\ procs = <<>>

StatusStep == Idle /\ \E v \in StatusShapes : StatusEvent(v)

UserPostStep == Idle /\ \E c \in Contents : UserPost(c)

NextLfg == StatusStep \/ UserPostStep \/ Respond

SpecLfg == InitLfg /\ [][NextLfg]_vars

(***************************************************************************)
(* SpecSweep: sequential sweeps over a channel with up to three threads,   *)
(* created one millisecond apart, and up to two stored pair pointers.      *)
(***************************************************************************)
SweepThreadIds == { IdStr(4194309), IdStr(8388608), IdStr(12582913) }

PointerKeys == { Key("threadpair", <<97, 124, 98>>), Key("threadpair", <<97, 124, 99>>) }

\* The instants of the sweeps: the cutoff falls on the creation instant of the
\* second thread, or one millisecond later.
SweepNows == { THREAD_MAX_AGE_SECONDS * 1000 + k : k \in 2..3 }

InitSweep ==
    /\ \E S \in SUBSET SweepThreadIds : threads \in [S -> {"active", "archived"}]
    /\ \E K \in SUBSET PointerKeys : store \in [K -> {Str(t) : t \in SweepThreadIds}]
    /\ nextId = 1
    /\ last = IdleLast
    /\ preLink = EmptyStore
    /\ rt = [x \in {} |-> NoHistory]
    /\ fin = <<>>
    /\ fout = <<>>
    /\ chan = <<>>
    /\ config = Configured
    /\ procs = <<>>

SweepEnvSet == SweepEnvs(SweepThreadIds)

SweepStep == Idle /\ \E now_ms \in SweepNows, env \in SweepEnvSet : Sweep(now_ms, env)

NextSweep == SweepStep \/ Respond

SpecSweep == InitSweep /\ [][NextSweep]_vars

(***************************************************************************)
(* SpecPages: one sweep taken step by step, against an archived listing    *)
(* that may answer each request with any page: the listing of the active   *)
(* threads, then one step per request for an archived page, per candidate  *)
(* of the page and per end of page, then the stored pointers.              *)
(* procs[1] holds the position (pc) and the locals of _cleanup.  The       *)
(* counters stop at MaxCount so that the states of a sweep that never ends *)
(* are finitely many.                                                      *)
(***************************************************************************)
\* The threads of the channel: one created before the cutoff, one after it.
PagesThreadIds == { IdStr(4194309), IdStr(12582913) }

\* The instant of the sweep: the cutoff falls on the second millisecond.
PagesNow == THREAD_MAX_AGE_SECONDS * 1000 + 2

\* The answers to the requests of one step: at most one request fails.
PagesEnvs ==
    { e \in SweepEnvs(PagesThreadIds) :
          /\ e.lp = "ok"
          /\ e.bad = <<>> => e.kind = "500"
          /\ e.bad # <<>> => e.la = "ok" /\ e.sc = 0 /\ e.g }

\* What the archived listing can answer: any page of at most ArchivedPageSize
\* threads, with or without has_more (a refused request reads as no threads).
ArchivedPages ==
    [threads : UNION {[1..n -> PagesThreadIds] : n \in 0..ArchivedPageSize},
     has_more : BOOLEAN]

\* The locals of _cleanup between two steps.
Capped(acc) ==
    [acc EXCEPT !.inspected = Min(@, MaxCount), !.deleted = Min(@, MaxCount),
                !.errors = Min(@, MaxCount), !.calls = <<>>]

PagesProc == procs[1]

\* The locals after a step that leaves _cleanup at pc.
PagesGoto(pc, acc, before_id, page, i) ==
    /\ procs' = <<[pc |-> IF acc.raised THEN "crash" ELSE pc, acc |-> Capped(acc),
                   before_id |-> before_id, page |-> page, i |-> i,
                   cutoff_ms |-> PagesProc.cutoff_ms]>>
    /\ threads' = acc.th
    /\ UNCHANGED <<store, nextId, last, preLink, rt, fin, fout, chan, config>>

InitPages ==
    /\ \E S \in SUBSET PagesThreadIds : threads \in [S -> {"active", "archived"}]
    /\ \E K \in SUBSET {Key("threadpair", <<97, 124, 98>>)} :
           store \in [K -> {Str(t) : t \in PagesThreadIds}]
    /\ \E now_ms \in {PagesNow} :
           procs = <<[pc |-> "active", acc |-> SweepStart(threads), before_id |-> NoneV,
                      page |-> [threads |-> <<>>, has_more |-> FALSE], i |-> 1,
                      cutoff_ms |-> CutoffMs(now_ms, THREAD_MAX_AGE_SECONDS)]>>
    /\ nextId = 1
    /\ last = IdleLast
    /\ preLink = EmptyStore
    /\ rt = [x \in {} |-> NoHistory]
    /\ fin = <<>>
    /\ fout = <<>>
    /\ chan = <<>>
    /\ config = Configured

\* _cleanup lines 126-133: the loop over the active threads, then before_id =
\* None.
PagesActive ==
    /\ PagesProc.pc = "active"
    /\ \E env \in PagesEnvs :
           \E list \in {ListActiveThreads(threads, env.la)} :
               \E a \in {IF list.raised THEN [PagesProc.acc EXCEPT !.raised = TRUE]
                         ELSE SweepThreads(PagesProc.acc, list.threads, 1,
                                           PagesProc.cutoff_ms, env)} :
                   PagesGoto("list", a, NoneV, PagesProc.page, 1)

\* _cleanup lines 135-138: the request for the next archived page; no threads
\* in the answer ends the loop, an error other than HTTPError ends the sweep.
PagesList ==
    /\ PagesProc.pc = "list"
    /\ \/ \E pg \in ArchivedPages :
              PagesGoto(IF pg.threads = <<>> THEN "pointers" ELSE "page",
                        PagesProc.acc, PagesProc.before_id, pg, 1)
       \/ PagesGoto("list", [PagesProc.acc EXCEPT !.raised = TRUE],
                    PagesProc.before_id, PagesProc.page, 1)

\* _cleanup lines 139-145: one thread of the page in hand.
PagesInspect ==
    /\ PagesProc.pc = "page"
    /\ PagesProc.i <= Len(PagesProc.page.threads)
    /\ \E env \in PagesEnvs :
           \E a \in {InspectCandidate(PagesProc.acc, PagesProc.page.threads[PagesProc.i],
                                      PagesProc.cutoff_ms, env)} :
               PagesGoto("page", a, PagesProc.before_id, PagesProc.page, PagesProc.i + 1)

\* _cleanup lines 146-148: the end of the page; without has_more the loop ends,
\* with it the next request asks for the threads before the last one of the
\* page.
PagesMore ==
    /\ PagesProc.pc = "page"
    /\ PagesProc.i > Len(PagesProc.page.threads)
    /\ IF ~PagesProc.page.has_more
       THEN PagesGoto("pointers", PagesProc.acc, PagesProc.before_id, PagesProc.page, 1)
       ELSE PagesGoto("list", PagesProc.acc,
                      Str(PagesProc.page.threads[Len(PagesProc.page.threads)]),
                      PagesProc.page, 1)

\* _cleanup lines 153-168: the stored pointers and the return; an error raised
\* in the loop ends the loop only.
PagesPointers ==
    /\ PagesProc.pc = "pointers"
    /\ \E env \in PagesEnvs :
           \E keys \in {UScan(store, "threadpair", env.sc)} :
               \E a \in {SweepPointers(PagesProc.acc, {}, keys, 1, store,
                                       PagesProc.cutoff_ms, env)} :
                   PagesGoto("done", [a EXCEPT !.raised = FALSE], PagesProc.before_id,
                             PagesProc.page, 1)

NextPages == PagesActive \/ PagesList \/ PagesInspect \/ PagesMore \/ PagesPointers

\* Every step of the sweep that can be taken is taken in the end: the process
\* runs, and every request it sends is answered.
SpecPages == InitPages /\ [][NextPages]_vars /\ WF_vars(NextPages)

(***************************************************************************)
(* SpecHook: the two webhook handlers from the arrival of a request, in a  *)
(* deployment with or without SHARED_SECRET.  One request arrives with its *)
(* X-Shared-Secret header (empty when the header is missing) and its body, *)
(* is handled, and its response is delivered.                              *)
(***************************************************************************)
\* The values of the X-Shared-Secret header: missing, the secret, another.
Headers == { <<>>, Secret, <<120>> }

\* The bodies of the POSTs to api/showdown.py: status events and match events
\* (an absent player name reads as the empty string), and the GET of
\* api/cleanup_threads.py.
HookBodies ==
    [kind : {"status"}, v : StatusShapes]
        \cup [kind : {"match"}, playerOne : {<<>>, <<97>>}, playerTwo : {<<>>, <<98>>}]
        \cup [kind : {"cleanup"}, now_ms : {PagesNow}]

\* The secret check that opens do_POST of api/showdown.py and do_GET of
\* api/cleanup_threads.py: True = rejected with 401.
Unauthorized(shared_secret, header) == shared_secret # <<>> /\ header # shared_secret

InitHook ==
    /\ store \in { EmptyStore, Set(EmptyStore, Key("playerlink", <<97>>), Str(<<55>>)) }
    /\ \E S \in SUBSET PagesThreadIds : threads \in [S -> {"active"}]
    /\ nextId = 1
    /\ last = IdleLast
    /\ preLink = EmptyStore
    /\ rt = [x \in {LfgHistoryKey} |-> NoLfgHistory]
    /\ fin = <<>>
    /\ fout = <<>>
    /\ chan = <<>>
    /\ procs = <<>>
    /\ config \in [SHARED_SECRET : {<<>>, Secret}]

\* A request arrives.
HookArrive ==
    /\ Idle /\ procs = <<>>
    /\ \E header \in Headers, body \in HookBodies :
           procs' = <<[header |-> header, body |-> body, answered |-> FALSE]>>
    /\ UNCHANGED <<store, threads, nextId, last, preLink, rt, fin, fout, chan, config>>

\* The 401 of the secret check.
HookReject ==
    /\ last' = [IdleLast EXCEPT !.op = "hook", !.res = "unauthorized"]
    /\ UNCHANGED <<store, threads, nextId, preLink, rt, fin, fout, chan, procs, config>>

\* handler.do_POST of api/showdown.py and handler.do_GET of
\* api/cleanup_threads.py, from the secret check on.
HookHandle ==
    /\ Idle /\ procs # <<>> /\ ~procs[1].answered
    /\ LET body == procs[1].body
       IN  IF Unauthorized(config.SHARED_SECRET, procs[1].header) THEN HookReject
           ELSE IF body.kind = "status" THEN StatusEvent(body.v)
           ELSE IF body.kind = "match" THEN RouteMatch(body.playerOne, body.playerTwo)
           ELSE \E env \in PagesEnvs : Sweep(body.now_ms, env)

\* The response of the request is delivered.
HookRespond ==
    /\ ~Idle
    /\ last' = IdleLast
    /\ procs' = <<[procs[1] EXCEPT !.answered = TRUE]>>
    /\ UNCHANGED <<store, threads, nextId, preLink, rt, fin, fout, chan, config>>

NextHook == HookArrive \/ HookHandle \/ HookRespond

SpecHook == InitHook /\ [][NextHook]_vars

(***************************************************************************)
(* SpecRace: two match events for one pair handled concurrently, each      *)
(* request one step per store or gateway request (do_POST lines 269-302).  *)
(* procs[i] holds the position (pc) and the locals of request i: n is the  *)
(* request of the operation at pc that it sends next; wrote is the rank of *)
(* its SET of the pointer among the SETs the store served.                 *)
(***************************************************************************)
RaceIds == 1..2

\* The two events name the same two players, in either order.
RaceEvents == { <<<<97>>, <<98>>>>, <<<<98>>, <<97>>>> }     \* ("a", "b"), ("b", "a")

RaceProc(p1, p2) ==
    [pc |-> "lookup", n |-> 1, p1 |-> p1, p2 |-> p2, id1 |-> NoneV, id2 |-> NoneV,
     pointer |-> NoneV, thread_id |-> NoneV, res |-> "", ok |-> TRUE, wrote |-> 0]

InitRace ==
    /\ \E K \in SUBSET {Key("playerlink", <<97>>), Key("playerlink", <<98>>)} :
           store \in [K -> {Str(<<55>>)}]
    /\ \E e1 \in RaceEvents, e2 \in RaceEvents :
           procs = <<RaceProc(e1[1], e1[2]), RaceProc(e2[1], e2[2])>>
    /\ threads = EmptyThreads
    /\ nextId = 1
    /\ last = IdleLast
    /\ preLink = EmptyStore
    /\ rt = [x \in {} |-> NoHistory]
    /\ fin = <<>>
    /\ fout = <<>>
    /\ chan = <<>>
    /\ config = Configured

\* Request i moves on with the locals p.
RaceGoto(i, p) ==
    /\ procs' = [procs EXCEPT ![i] = p]
    /\ UNCHANGED <<last, preLink, rt, fin, fout, chan, config>>

\* Request i ends with the response res.
RaceDone(i, p, res) == RaceGoto(i, [p EXCEPT !.pc = "done", !.n = 1, !.res = res])

\* do_POST lines 269-274: the GET of one lookup (n = 1: playerOne, n = 2:
\* playerTwo), and after the second the skip test.
RaceLookup(i) ==
    LET p == procs[i]
    IN  /\ p.pc = "lookup"
        /\ \E g \in BOOLEAN :
               IF p.n = 1
               THEN RaceGoto(i, [p EXCEPT !.id1 = LookupDiscordId(store, p.p1, g),
                                          !.ok = @ /\ g, !.n = 2])
               ELSE LET id2 == LookupDiscordId(store, p.p2, g)
                        q == [p EXCEPT !.id2 = id2, !.ok = @ /\ g, !.n = 1]
                    IN  IF ShouldSkip(p.id1, id2) THEN RaceDone(i, q, "skipped")
                        ELSE RaceGoto(i, [q EXCEPT !.pc = "get"])
        /\ UNCHANGED <<store, threads, nextId>>

\* do_POST lines 283-284: the GET of the pointer.
RaceGet(i) ==
    LET p == procs[i]
    IN  /\ p.pc = "get"
        /\ \E g3 \in BOOLEAN :
               LET thread_id == UGet(store, PairKey(p.p1, p.p2), g3)
               IN  RaceGoto(i, [p EXCEPT !.pointer = thread_id, !.thread_id = thread_id,
                                         !.ok = @ /\ g3,
                                         !.pc = IF Truthy(thread_id) THEN "ensure"
                                                ELSE "create"])
        /\ UNCHANGED <<store, threads, nextId>>

\* What the gateway can answer to the PATCH of a thread: a thread that no longer
\* exists is never patched (404).
PatchAnswers(th, thread_id) ==
    IF thread_id \in DOMAIN th THEN Answers ELSE Answers \ {"ok"}

\* do_POST line 285, _ensure_unarchived: the PATCH with the n-th duration; a
\* refusal is followed by the next duration, the last by the creation.
RaceEnsure(i) ==
    LET p == procs[i]
    IN  /\ p.pc = "ensure"
        /\ \E a \in PatchAnswers(threads, p.thread_id[2]) :
               /\ threads' = IF a = "ok" THEN [threads EXCEPT ![p.thread_id[2]] = "active"]
                             ELSE threads
               /\ IF a = "raise" THEN RaceDone(i, p, "crash")
                  ELSE IF a = "ok"
                  THEN RaceGoto(i, [p EXCEPT !.pc = "finish", !.n = 1, !.res = "existing"])
                  ELSE IF p.n < Len(Durations) THEN RaceGoto(i, [p EXCEPT !.n = @ + 1])
                  ELSE RaceGoto(i, [p EXCEPT !.pc = "create", !.n = 1])
        /\ UNCHANGED <<store, nextId>>

\* do_POST lines 292-297, _create_private_thread: the POST with the n-th
\* duration; a refusal is followed by the next duration, the last by the
\* response "failed to create thread".
RaceCreate(i) ==
    LET p == procs[i]
    IN  /\ p.pc = "create"
        /\ nextId <= MaxThreads
        /\ \E a \in Answers :
               LET c == CreatePrivateThread(threads, nextId,
                                            IF a = "ok" THEN 1 ELSE IF a = "http" THEN 0 ELSE -1)
               IN  /\ threads' = c.th
                   /\ nextId' = c.nid
                   /\ IF c.raised THEN RaceDone(i, p, "crash")
                      ELSE IF Truthy(c.id)
                      THEN RaceGoto(i, [p EXCEPT !.pc = "set", !.n = 1, !.thread_id = c.id])
                      ELSE IF p.n < Len(Durations) THEN RaceGoto(i, [p EXCEPT !.n = @ + 1])
                      ELSE RaceDone(i, p, "create_failed")
        /\ UNCHANGED store

\* do_POST line 298: the SET of the pointer.
RaceSet(i) ==
    LET p == procs[i]
    IN  /\ p.pc = "set"
        /\ \E so \in BOOLEAN :
               /\ store' = USet(store, PairKey(p.p1, p.p2), p.thread_id, so)
               /\ RaceGoto(i, [p EXCEPT !.pc = "finish", !.res = "new", !.ok = @ /\ so,
                                        !.wrote = IF so
                                                  THEN 1 + Cardinality({j \in RaceIds :
                                                                          procs[j].wrote > 0})
                                                  ELSE 0])
        /\ UNCHANGED <<threads, nextId>>

\* do_POST lines 286-288 and 299-301: the requests that end the flow, one PUT
\* for each player with an id and the POST of the message.
FinishRequests(id1, id2) ==
    (IF Truthy(id1) THEN <<"member">> ELSE <<>>)
    \o (IF Truthy(id2) THEN <<"member">> ELSE <<>>) \o <<"post">>

\* do_POST lines 286-289 and 299-302: the n-th of these requests; a refusal is
\* ignored, an error other than HTTPError gives the crash response, and after
\* the last the response is sent.
RaceFinish(i) ==
    LET p == procs[i]
    IN  /\ p.pc = "finish"
        /\ \E a \in Answers :
               IF a = "raise" THEN RaceDone(i, p, "crash")
               ELSE IF p.n < Len(FinishRequests(p.id1, p.id2))
               THEN RaceGoto(i, [p EXCEPT !.n = @ + 1])
               ELSE RaceDone(i, p, p.res)
        /\ UNCHANGED <<store, threads, nextId>>

NextRace ==
    \E i \in RaceIds :
        \/ RaceLookup(i)
        \/ RaceGet(i)
        \/ RaceEnsure(i)
        \/ RaceCreate(i)
        \/ RaceSet(i)
        \/ RaceFinish(i)

SpecRace == InitRace /\ [][NextRace]_vars

(***************************************************************************)
(* SpecLfgRace: two status events on one channel handled concurrently,     *)
(* each call of _ensure_lfg_message or _clear_lfg_message one step per     *)
(* store or gateway request.  procs[i] holds the position (pc) and the     *)
(* locals of call i; wrote is the rank of its SET among the SETs served.   *)
(* rt keeps, for the claims: pure = every request so far was served,       *)
(* overlap = a call started while the other was in progress.               *)
(***************************************************************************)
LfgIds == 1..2

LfgProc ==
    [kind |-> "", pc |-> "new", msg_id |-> NoneV, msgs |-> <<>>, i |-> 1, before |-> <<>>,
     pages |-> 0, res |-> "", wrote |-> 0]

\* The channel is empty with no pointer, or shows the banner an earlier ensure
\* posted and stored.
InitLfgRace ==
    /\ \E shown \in BOOLEAN :
           IF shown
           THEN /\ chan = <<[id |-> IdStr(1), content |-> LFG_MESSAGE_TEXT]>>
                /\ store = Set(EmptyStore, LfgKey(LfgChannel), Str(IdStr(1)))
                /\ nextId = 2
           ELSE /\ chan = <<>>
                /\ store = EmptyStore
                /\ nextId = 1
    /\ procs = <<LfgProc, LfgProc>>
    /\ rt = [x \in {LfgHistoryKey} |-> [pure |-> TRUE, overlap |-> FALSE]]
    /\ threads = EmptyThreads
    /\ last = IdleLast
    /\ preLink = EmptyStore
    /\ fin = <<>>
    /\ fout = <<>>
    /\ config = Configured

\* Call i moves on with the locals p; served = its request was served.
LfgGoto(i, p, served) ==
    /\ procs' = [procs EXCEPT ![i] = p]
    /\ rt' = [rt EXCEPT ![LfgHistoryKey].pure = @ /\ served]
    /\ UNCHANGED <<threads, last, preLink, fin, fout, config>>

\* Call i returns res.
LfgDone(i, p, res, served) ==
    LfgGoto(i, [p EXCEPT !.pc = "done", !.res = res, !.msgs = <<>>, !.i = 1,
                         !.before = <<>>, !.pages = 0], served)

\* The index of the first message from i on whose content is the text.
RECURSIVE NextCopy(_, _, _)
NextCopy(msgs, i, content) ==
    IF i > Len(msgs) \/ msgs[i].content = content THEN i
    ELSE NextCopy(msgs, i + 1, content)

\* do_POST line 260: a status event arrives and calls ensure or clear.
LfgCall(i) ==
    /\ procs[i].pc = "new"
    /\ \E is_looking \in BOOLEAN :
           procs' = [procs EXCEPT ![i] =
                        [@ EXCEPT !.kind = IF is_looking THEN "ensure" ELSE "clear",
                                  !.pc = "get"]]
    /\ rt' = [rt EXCEPT ![LfgHistoryKey].overlap =
                 @ \/ \E j \in LfgIds \ {i} : procs[j].pc \notin {"new", "done"}]
    /\ UNCHANGED <<store, threads, nextId, last, preLink, fin, fout, chan, config>>

\* Lines 177-180 and 197-199: the GET of the pointer.
LfgGet(i) ==
    LET p == procs[i]
    IN  /\ p.pc = "get"
        /\ \E g \in BOOLEAN :
               LET msg_id == UGet(store, LfgKey(LfgChannel), g)
                   q == [p EXCEPT !.msg_id = msg_id]
               IN  IF p.kind = "ensure"
                   THEN IF HasPointer(msg_id) THEN LfgDone(i, q, "exists", g)
                        ELSE LfgGoto(i, [q EXCEPT !.pc = "post"], g)
                   ELSE LfgGoto(i, [q EXCEPT !.pc = IF Truthy(msg_id) THEN "tracked"
                                                   ELSE "list",
                                             !.pages = MAX_PAGES], g)
        /\ UNCHANGED <<store, nextId, chan>>

\* Line 181: the banner is posted.
LfgPost(i) ==
    LET p == procs[i]
    IN  /\ p.pc = "post"
        /\ nextId <= MaxMsgs
        /\ \E a \in Answers :
               LET obj == PostMessage(chan, nextId, LFG_MESSAGE_TEXT, a)
               IN  /\ chan' = obj.ch
                   /\ nextId' = obj.nid
                   /\ IF obj.raised THEN LfgDone(i, p, "crash", FALSE)
                      ELSE IF Truthy(obj.id)
                      THEN LfgGoto(i, [p EXCEPT !.pc = "set", !.msg_id = obj.id], TRUE)
                      ELSE LfgDone(i, p, "error", FALSE)
        /\ UNCHANGED store

\* Lines 183-185: the SET of the pointer.
LfgSet(i) ==
    LET p == procs[i]
    IN  /\ p.pc = "set"
        /\ \E so \in BOOLEAN :
               /\ store' = USet(store, LfgKey(LfgChannel), p.msg_id, so)
               /\ LfgDone(i, [p EXCEPT !.wrote = IF so
                                                 THEN 1 + Cardinality({j \in LfgIds :
                                                                         procs[j].wrote > 0})
                                                 ELSE 0],
                          "created", so)
        /\ UNCHANGED <<nextId, chan>>

\* Lines 198-199: the tracked message is deleted.
LfgTracked(i) ==
    LET p == procs[i]
    IN  /\ p.pc = "tracked"
        /\ \E d \in Answers :
               LET r == DeleteMessage(chan, p.msg_id[2], d)
               IN  /\ chan' = r.ch
                   /\ IF r.raised THEN LfgDone(i, p, "crash", FALSE)
                      ELSE LfgGoto(i, [p EXCEPT !.pc = "list"], r.ok)
        /\ UNCHANGED <<store, nextId>>

\* Lines 205-208: the next page of messages is listed; the loop ends after
\* MAX_PAGES pages or on an empty page.
LfgList(i) ==
    LET p == procs[i]
    IN  /\ p.pc = "list"
        /\ \E ls \in Answers :
               LET l == ListMessages(chan, ListLimit, p.before, ls)
               IN  IF p.pages = 0
                   THEN LfgGoto(i, [p EXCEPT !.pc = "udel", !.msgs = <<>>], TRUE)
                   ELSE IF l.raised THEN LfgDone(i, p, "crash", FALSE)
                   ELSE IF l.msgs = <<>>
                   THEN LfgGoto(i, [p EXCEPT !.pc = "udel", !.msgs = <<>>], ls = "ok")
                   ELSE LfgGoto(i, [p EXCEPT !.pc = "scan", !.msgs = l.msgs,
                                             !.i = NextCopy(l.msgs, 1, LFG_MESSAGE_TEXT),
                                             !.pages = @ - 1], TRUE)
        /\ UNCHANGED <<store, nextId, chan>>

\* Lines 209-216: the next message of the page that shows the banner text is
\* deleted; at the end of the page before = the id of its last message.
LfgScan(i) ==
    LET p == procs[i]
    IN  /\ p.pc = "scan"
        /\ IF p.i > Len(p.msgs)
           THEN /\ LfgGoto(i, [p EXCEPT !.pc = "list", !.before = p.msgs[Len(p.msgs)].id,
                                        !.msgs = <<>>, !.i = 1], TRUE)
                /\ UNCHANGED chan
           ELSE \E d \in Answers :
                    LET r == DeleteMessage(chan, p.msgs[p.i].id, d)
                    IN  /\ chan' = r.ch
                        /\ IF r.raised THEN LfgDone(i, p, "crash", FALSE)
                           ELSE LfgGoto(i, [p EXCEPT !.i = NextCopy(p.msgs, p.i + 1,
                                                                    LFG_MESSAGE_TEXT)],
                                        r.ok)
        /\ UNCHANGED <<store, nextId>>

\* Lines 219-221: the DEL of the pointer.
LfgDel(i) ==
    LET p == procs[i]
    IN  /\ p.pc = "udel"
        /\ \E ud \in BOOLEAN :
               /\ store' = UDel(store, LfgKey(LfgChannel), ud)
               /\ LfgDone(i, p, "deleted_all", ud)
        /\ UNCHANGED <<nextId, chan>>

NextLfgRace ==
    \E i \in LfgIds :
        \/ LfgCall(i)
        \/ LfgGet(i)
        \/ LfgPost(i)
        \/ LfgSet(i)
        \/ LfgTracked(i)
        \/ LfgList(i)
        \/ LfgScan(i)
        \/ LfgDel(i)

SpecLfgRace == InitLfgRace /\ [][NextLfgRace]_vars

(***************************************************************************)
(* SpecLinkRace: two /link commands handled concurrently, each call of     *)
(* save_link one step per store request.  A GET is served or raises; a SET *)
(* is served, answered with a result other than "OK" (nothing written), or *)
(* raises.  procs[i] holds the position (pc) and the locals of call i: ok  *)
(* is save_link's flag, n the number of the next SET.  rt keeps, for the   *)
(* claims: pure = every request so far was served, overlap = a call        *)
(* started while the other was in progress.                                *)
(***************************************************************************)
LinkIds == 1..2

\* The first command is /link a by user 7 ("u"); the second is /link a by user
\* 8 ("v", or without a username) or /link b by user 7.
LinkRaceCalls ==
    << { [playername |-> <<97>>, user_id |-> <<55>>, username |-> <<117>>] },
       { [playername |-> <<97>>, user_id |-> <<56>>, username |-> <<118>>],
         [playername |-> <<97>>, user_id |-> <<56>>, username |-> <<>>],
         [playername |-> <<98>>, user_id |-> <<55>>, username |-> <<117>>] } >>

LinkProc(c) ==
    [pc |-> "new", playername |-> c.playername, user_id |-> c.user_id,
     username |-> c.username, display |-> <<100>>, n |-> 1, ok |-> TRUE, res |-> ""]

LinkRaceKey == "calls"

InitLinkRace ==
    /\ store = EmptyStore
    /\ \E c1 \in LinkRaceCalls[1], c2 \in LinkRaceCalls[2] :
           procs = <<LinkProc(c1), LinkProc(c2)>>
    /\ rt = [x \in {LinkRaceKey} |-> [pure |-> TRUE, overlap |-> FALSE]]
    /\ threads = EmptyThreads
    /\ nextId = 1
    /\ last = IdleLast
    /\ preLink = EmptyStore
    /\ fin = <<>>
    /\ fout = <<>>
    /\ chan = <<>>
    /\ config = Configured

\* What the store can answer to a GET and to a SET.
GetAnswers == {"ok", "raise"}
SetAnswers == {"ok", "notok", "raise"}

\* Call i moves on with the locals p; served = its request was served.
LinkGoto(i, p, served) ==
    /\ procs' = [procs EXCEPT ![i] = p]
    /\ rt' = [rt EXCEPT ![LinkRaceKey].pure = @ /\ served]
    /\ UNCHANGED <<threads, nextId, last, preLink, fin, fout, chan, config>>

\* The command is answered: with save_link's message (do_POST line 145 does not
\* read ok), or the error a store request raised has left do_POST, which has
\* no handler for it (res = "escaped").
LinkDone(i, p, res, served) == LinkGoto(i, [p EXCEPT !.pc = "done", !.res = res], served)

\* save_link line 76: if existing, never true.
PlayerTakenNever(existing) == FALSE

\* save_link line 76: if existing
PlayerTaken(existing) == Truthy(existing)

\* The key and the value of the n-th SET of save_link (lines 79-92).
LinkWrite(p, n) ==
    LET player_norm == Strip(p.playername)
    IN  IF n = 1 THEN <<Key("playerlink", Lower(player_norm)),
                        PlayerBlob(p.user_id, p.username, p.display)>>
        ELSE IF n = 2 THEN <<Key("userlink", p.user_id), Str(player_norm)>>
        ELSE IF n = 3 THEN <<Key("usernamelink", Lower(Strip(p.username))), Str(player_norm)>>
        ELSE <<Key("usermeta", p.user_id), MetaBlob(p.username, p.display, player_norm)>>

\* do_POST lines 141-144: a /link command arrives and calls save_link.
LinkCall(i) ==
    /\ procs[i].pc = "new"
    /\ procs' = [procs EXCEPT ![i].pc = "getuser"]
    /\ rt' = [rt EXCEPT ![LinkRaceKey].overlap =
                 @ \/ \E j \in LinkIds \ {i} : procs[j].pc \notin {"new", "done"}]
    /\ UNCHANGED <<store, threads, nextId, last, preLink, fin, fout, chan, config>>

\* save_link lines 70-72: the GET of the user's key.
LinkGetUser(i) ==
    LET p == procs[i]
    IN  /\ p.pc = "getuser"
        /\ \E a \in GetAnswers :
               IF a = "raise" THEN LinkDone(i, p, "escaped", FALSE)
               ELSE IF Truthy(Get(store, Key("userlink", p.user_id)))
               THEN LinkDone(i, p, "AlreadyLinkedUser", TRUE)
               ELSE LinkGoto(i, [p EXCEPT !.pc = "getplayer"], TRUE)
        /\ UNCHANGED store

\* save_link lines 75-77: the GET of the player's key.
LinkGetPlayer(i) ==
    LET p == procs[i]
    IN  /\ p.pc = "getplayer"
        /\ \E a \in GetAnswers :
               IF a = "raise" THEN LinkDone(i, p, "escaped", FALSE)
               ELSE IF PlayerTaken(Get(store, Key("playerlink", Lower(Strip(p.playername)))))
               THEN LinkDone(i, p, "AlreadyLinkedPlayer", TRUE)
               ELSE LinkGoto(i, [p EXCEPT !.pc = "set", !.n = 1], TRUE)
        /\ UNCHANGED store

\* save_link lines 88-93: the n-th SET (the third only with a username), then
\* the return of (ok, "Linked ...").
LinkSet(i) ==
    LET p == procs[i]
        w == LinkWrite(p, p.n)
        next == IF p.n = 2 /\ Lower(Strip(p.username)) = <<>> THEN 4 ELSE p.n + 1
    IN  /\ p.pc = "set"
        /\ \E a \in SetAnswers :
               /\ store' = IF a = "ok" THEN Set(store, w[1], w[2]) ELSE store
               /\ IF a = "raise" THEN LinkDone(i, p, "escaped", FALSE)
                  ELSE LET q == [p EXCEPT !.ok = @ /\ a = "ok", !.n = next]
                       IN  IF next > 4 THEN LinkDone(i, q, "Linked", a = "ok")
                           ELSE LinkGoto(i, q, a = "ok")

NextLinkRace ==
    \E i \in LinkIds :
        \/ LinkCall(i)
        \/ LinkGetUser(i)
        \/ LinkGetPlayer(i)
        \/ LinkSet(i)

SpecLinkRace == InitLinkRace /\ [][NextLinkRace]_vars

(***************************************************************************)
(* SpecRetry: the sweep trigger fires again and again (weak fairness) while *)
(* the clock advances, and each sweep is taken loop by loop: the active     *)
(* threads, one step per archived page, the stored pointers.  The gateway   *)
(* and the store answer the listings, the scan and the GETs of every sweep  *)
(* in one lasting way (mode): all served, or the two listings refused for   *)
(* good with an HTTP error (the bot may not list the threads of the         *)
(* channel), which leaves the stored pointers to enumerate the threads.     *)
(* In at most MaxFailures sweeps in all something more fails: the DELETE of *)
(* a thread (403, 500 or an error raised) or a listing with an error raised *)
(* (a timeout), so that every request is answered as in mode in the end.    *)
(* procs[1] holds the position (pc) and the locals of _cleanup, the clock   *)
(* (now_ms), the failures that may still come (left) and the threads whose  *)
(* DELETE was not served in some sweep (refused).                           *)
(***************************************************************************)
\* The threads of the channel, created one millisecond apart: the first is older
\* than the cutoff from the start, the second once the clock has advanced.
RetryThreadIds == { IdStr(4194309), IdStr(8388608) }

RetryNows == SweepNows

RetryPointerKeys == { Key("threadpair", <<97, 124, 98>>) }

\* The lasting answers to the sweeps: the listings are both served or both
\* refused with an HTTP error, the scan, the GETs and every DELETE are served.
RetryModes ==
    {[la |-> l, lp |-> l, sc |-> 0, g |-> TRUE, bad |-> <<>>, kind |-> "500"] :
         l \in {"ok", "http"}}

\* The answers of one sweep: those of mode, or with them the DELETE of one
\* thread failing, or a listing raising an error.
RetryEnvs(mode) ==
    {mode}
    \cup {[mode EXCEPT !.bad = t, !.kind = k] :
              t \in RetryThreadIds, k \in DeleteAnswers \ {"ok"}}
    \cup {[mode EXCEPT !.la = "raise"], [mode EXCEPT !.lp = "raise"]}

RetryProc == procs[1]

InitRetry ==
    /\ \E S \in SUBSET RetryThreadIds : threads \in [S -> {"active", "archived"}]
    /\ \E K \in SUBSET RetryPointerKeys : store \in [K -> {Str(t) : t \in RetryThreadIds}]
    /\ nextId = 1
    /\ last = IdleLast
    /\ preLink = EmptyStore
    /\ rt = [x \in {} |-> NoHistory]
    /\ fin = <<>>
    /\ fout = <<>>
    /\ chan = <<>>
    /\ config = Configured
    /\ \E n \in RetryNows, e \in RetryModes :
           procs = <<[pc |-> "idle", acc |-> SweepStart(threads), before_id |-> NoneV,
                      cutoff_ms |-> 0, mode |-> e, env |-> e, now_ms |-> n,
                      left |-> MaxFailures, refused |-> {}]>>

\* The sweep goes on at pc with the locals acc and before_id; an error raised
\* by a listing or a DELETE ends it.
RetryGoto(pc, acc, before_id) ==
    /\ procs' = <<[RetryProc EXCEPT !.pc = IF acc.raised THEN "end" ELSE pc,
                                    !.acc = acc, !.before_id = before_id]>>
    /\ threads' = acc.th
    /\ UNCHANGED <<store, nextId, last, preLink, rt, fin, fout, chan, config>>

\* The cleanup trigger fires at the instant of the clock (do_GET, _cleanup lines
\* 116-124).
RetryFire ==
    /\ RetryProc.pc = "idle"
    /\ \E env \in RetryEnvs(RetryProc.mode) :
         /\ env = RetryProc.mode \/ RetryProc.left > 0
         /\ procs' = <<[RetryProc EXCEPT
                          !.pc = "active", !.acc = SweepStart(threads),
                          !.before_id = NoneV, !.env = env,
                          !.cutoff_ms = CutoffMs(RetryProc.now_ms, THREAD_MAX_AGE_SECONDS),
                          !.left = IF env = RetryProc.mode THEN @ ELSE @ - 1]>>
    /\ UNCHANGED <<store, threads, nextId, last, preLink, rt, fin, fout, chan, config>>

\* _cleanup lines 126-133: the loop over the active threads.
RetryActive ==
    /\ RetryProc.pc = "active"
    /\ \E active \in {ListActiveThreads(threads, RetryProc.env.la)} :
           IF active.raised
           THEN RetryGoto("end", [RetryProc.acc EXCEPT !.raised = TRUE], NoneV)
           ELSE \E a \in {SweepThreads(RetryProc.acc, active.threads, 1,
                                       RetryProc.cutoff_ms, RetryProc.env)} :
                    RetryGoto("archived", a, NoneV)

\* _cleanup lines 135-149: one turn of the archived loop, a page and its
\* threads; before_id is set (line 149) only where the loop goes on: the page
\* has more after it and no error left the loop over its threads.
RetryArchived ==
    /\ RetryProc.pc = "archived"
    /\ \E pg \in {ListPrivateArchived(threads, RetryProc.before_id, RetryProc.env.lp)} :
           IF pg.raised
           THEN RetryGoto("end", [RetryProc.acc EXCEPT !.raised = TRUE],
                          RetryProc.before_id)
           ELSE IF pg.threads = <<>>
           THEN RetryGoto("pointers", RetryProc.acc, RetryProc.before_id)
           ELSE \E a \in {SweepThreads(RetryProc.acc, pg.threads, 1, RetryProc.cutoff_ms,
                                       RetryProc.env)} :
                    IF pg.has_more /\ ~a.raised
                    THEN RetryGoto("archived", a, Str(pg.threads[Len(pg.threads)]))
                    ELSE RetryGoto("pointers", a, RetryProc.before_id)

\* _cleanup lines 153-166: the stored pointers; an error raised in the loop ends
\* the loop only.
RetryPointers ==
    /\ RetryProc.pc = "pointers"
    /\ \E keys \in {UScan(store, "threadpair", RetryProc.env.sc)} :
           \E a \in {SweepPointers(RetryProc.acc, {}, keys, 1, store,
                                   RetryProc.cutoff_ms, RetryProc.env)} :
               RetryGoto("end", [a EXCEPT !.raised = FALSE], RetryProc.before_id)

\* The sweep ends: _cleanup returns its counters (line 168), or the error of a
\* listing or a DELETE leaves do_GET (acc.raised).  The locals stay in procs[1] until the
\* trigger fires again.
RetryEnd ==
    /\ RetryProc.pc = "end"
    /\ \E unserved \in {{t \in DOMAIN threads :
                            /\ t = RetryProc.env.bad
                            /\ \E i \in 1..Len(RetryProc.acc.calls) :
                                   RetryProc.acc.calls[i] = t}} :
         procs' = <<[RetryProc EXCEPT !.pc = "idle", !.before_id = NoneV,
                                      !.refused = @ \cup unserved]>>
    /\ UNCHANGED <<store, threads, nextId, last, preLink, rt, fin, fout, chan, config>>

\* A millisecond passes.
RetryTick ==
    /\ \E n \in RetryNows : n = RetryProc.now_ms + 1
    /\ procs' = <<[RetryProc EXCEPT !.now_ms = @ + 1]>>
    /\ UNCHANGED <<store, threads, nextId, last, preLink, rt, fin, fout, chan, config>>

\* The steps of a sweep under way.
RetryRun == RetryActive \/ RetryArchived \/ RetryPointers \/ RetryEnd

NextRetry == RetryFire \/ RetryActive \/ RetryArchived \/ RetryPointers \/ RetryEnd \/ RetryTick

\* The trigger fires again and again, and a sweep under way runs on.
SpecRetry == InitRetry /\ [][NextRetry]_vars /\ WF_vars(RetryFire) /\ WF_vars(RetryRun)

(***************************************************************************)
(* SpecFrame: the three components over one store: sequential match        *)
(* events, status events and sweeps, from a store that holds the links of  *)
(* two earlier link commands.                                              *)
(***************************************************************************)
FrameNames == { <<97>>, <<98>>, <<32>> }                    \* "a", "b", " "

FrameShapes == { JBool(TRUE), JBool(FALSE) }

\* The answers to the requests of a sweep: one of the listings or store calls
\* may fail, or the DELETE of the first thread may be answered 500.
FrameEnvs == { e \in SweepEnvs({IdStr(1)}) : e.kind = "500" }

InitFrame ==
    /\ store = LinkedAB
    /\ threads = EmptyThreads
    /\ nextId = 1
    /\ last = IdleLast
    /\ preLink = EmptyStore
    /\ rt = [x \in {LfgHistoryKey} |-> NoLfgHistory]
    /\ fin = <<>>
    /\ fout = <<>>
    /\ chan = <<>>
    /\ config = Configured
    /\ procs = <<>>

FrameRouteStep ==
    /\ Idle
    /\ \E p1 \in FrameNames : \E p2 \in FrameNames \ {p1} : RouteMatch(p1, p2)

FrameStatusStep == Idle /\ \E v \in FrameShapes : StatusEvent(v)

FrameSweepStep == Idle /\ \E now_ms \in SweepNows, env \in FrameEnvs : Sweep(now_ms, env)

NextFrame == FrameRouteStep \/ FrameStatusStep \/ FrameSweepStep \/ Respond

SpecFrame == InitFrame /\ [][NextFrame]_vars

(***************************************************************************)
(* SpecLegacy: sequential link, unlink and whois commands over a store     *)
(* that holds one legacy mapping: playerlink:<player> with the bare user   *)
(* id as its value and no userlink key, every store call succeeding.       *)
(***************************************************************************)
LegacyNames == { <<97>>, <<98>> }                           \* "a", "b"

InitLegacy ==
    /\ \E p \in LegacyNames, u \in UserIds :
           store = Set(EmptyStore, Key("playerlink", p), Str(u))
    /\ threads = EmptyThreads
    /\ nextId = 1
    /\ last = IdleLast
    /\ preLink = EmptyStore
    /\ rt = [x \in {} |-> NoHistory]
    /\ chan = <<>>
    /\ config = Configured
    /\ procs = <<>>
    /\ fin = <<>>
    /\ fout = <<>>

LegacyLinkStep == \E p \in LegacyNames, u \in UserIds, d \in Displays, n \in UserNames :
                      Link(p, u, d, n)

LegacyUnlinkStep == \E p \in LegacyNames, u \in UserIds, perms \in Perms : Unlink(p, u, perms)

LegacyWhoisStep == \E p \in LegacyNames : Whois(p)

NextLegacy == LegacyLinkStep \/ LegacyUnlinkStep \/ LegacyWhoisStep

SpecLegacy == InitLegacy /\ [][NextLegacy]_vars

(***************************************************************************)
(* SpecPairKey: _pair_key applied to two names, to the same names swapped  *)
(* and to a variant of the first name that differs from it in letter case  *)
(* and surrounding blanks only.  The names are written with ASCII letters, *)
(* a space, a letter of Latin-1 and the Greek capital sigma, whose lower    *)
(* case depends on its place in the word.                                  *)
(***************************************************************************)
NameAlphabet == {97, 66, 32, 201, 931}                      \* "a", "B", " ", E acute, Sigma
Names == StringsUpTo(NameAlphabet, MaxNameLen)

\* The name with the case of every letter swapped (ASCII, Latin-1 and Greek
\* letters; the final small sigma becomes the capital sigma too).
SwapCase(s) ==
    [i \in 1..Len(s) |->
         IF s[i] \in (65..90) \cup (192..214) \cup (216..222) \cup (913..929) \cup (931..939)
         THEN s[i] + 32
         ELSE IF s[i] \in (97..122) \cup (224..246) \cup (248..254) \cup (945..961)
                          \cup (963..971)
         THEN s[i] - 32
         ELSE IF s[i] = 962 THEN 931
         ELSE s[i]]

\* The name is written without a sigma (capital, small or final).
NoSigma(s) == \A i \in 1..Len(s) : s[i] \notin {931, 962, 963}

\* The name, its case swapped or not, between lead spaces and trail no-break
\* spaces.
Variant(s, swap, lead, trail) ==
    [i \in 1..lead |-> 32] \o (IF swap THEN SwapCase(s) ELSE s) \o [i \in 1..trail |-> 160]

InitPairKey ==
    /\ fin \in [a : Names, b : Names, swap : BOOLEAN, lead : 0..1, trail : 0..1]
    /\ fout = <<>>
    /\ store = EmptyStore
    /\ threads = EmptyThreads
    /\ nextId = 1
    /\ last = IdleLast
    /\ preLink = EmptyStore
    /\ rt = [x \in {} |-> NoHistory]
    /\ chan = <<>>
    /\ config = Configured
    /\ procs = <<>>

ApplyPairKey ==
    /\ fout = <<>>
    /\ fout' = [ab |-> PairKey(fin.a, fin.b),
                ba |-> PairKey(fin.b, fin.a),
                var |-> PairKey(Variant(fin.a, fin.swap, fin.lead, fin.trail), fin.b)]
    /\ UNCHANGED <<store, threads, nextId, last, preLink, rt, fin, chan, procs, config>>

SpecPairKey == InitPairKey /\ [][ApplyPairKey]_vars

(***************************************************************************)
(* SpecLookup: the router's lookup and the link store's lookup applied to  *)
(* one stored value of player "a", of every shape.                         *)
(***************************************************************************)
ValueAlphabet == {49, 50, 123, 32}                          \* "1", "2", "{", " "

StoredShapes ==
    {NoneV}
    \cup {Str(v) : v \in StringsUpTo(ValueAlphabet, MaxValLen)}
    \cup {Json(<<id, un, <<100>>>>) : id \in {<<49>>, <<50>>, <<>>, Null}, un \in {<<120>>, Null}}

LookupNames == { <<97>>, <<32, 65>>, <<98>> }               \* "a", " A", "b"

InitLookup ==
    /\ fin \in [name : LookupNames, val : StoredShapes]
    /\ fout = <<>>
    /\ store = IF IsNone(fin.val) THEN EmptyStore
               ELSE Set(EmptyStore, Key("playerlink", <<97>>), fin.val)
    /\ threads = EmptyThreads
    /\ nextId = 1
    /\ last = IdleLast
    /\ preLink = EmptyStore
    /\ rt = [x \in {} |-> NoHistory]
    /\ chan = <<>>
    /\ config = Configured
    /\ procs = <<>>

ApplyLookup ==
    /\ fout = <<>>
    /\ fout' = [router |-> LookupDiscordId(store, fin.name, TRUE),
                linkstore |-> InfoId(ReadPlayerLink(store, fin.name))]
    /\ UNCHANGED <<store, threads, nextId, last, preLink, rt, fin, chan, procs, config>>

SpecLookup == InitLookup /\ [][ApplyLookup]_vars

(***************************************************************************)
(* Claims about the identity link store, checked under SpecLink.           *)
(***************************************************************************)
Canon(name) == Lower(Strip(name))

PlayerKeys(st) == {k \in DOMAIN st : k[1] = "playerlink"}
UserKeys(st) == {k \in DOMAIN st : k[1] = "userlink"}

\* The user id the player key k resolves to.
OwnerOf(st, k) == InfoId(ReadPlayerLink(st, k[2]))

\* C2: after any sequence of sequential link and unlink commands from an empty
\* store, no user id owns more than one player mapping, and no canonical player
\* name is the linked player of more than one user.
C2_OneToOne ==
    /\ \A k1, k2 \in PlayerKeys(store) :
           OwnerOf(store, k1) = OwnerOf(store, k2) => k1 = k2
    /\ \A k1, k2 \in UserKeys(store) :
           Canon(store[k1][2]) = Canon(store[k2][2]) => k1 = k2

\* Links and an unlink have acted: an unlink has just removed one mapping and
\* exactly one player remains linked, to one user.
C2_Witness ==
    /\ last.op = "unlink" /\ last.res = "Unlinked"
    /\ Cardinality(PlayerKeys(store)) = 1
    /\ Cardinality(UserKeys(store)) = 1

\* The step just taken is a /link of a non-empty player name.
IsLinkCall == last'.op = "link" /\ last'.res # "Usage"

\* Before the step, the player named by the step's /link is linked to a user
\* other than the caller.
PlayerHeldByOther ==
    LET k == Key("playerlink", Canon(last'.a))
    IN  k \in DOMAIN store /\ OwnerOf(store, k) # Str(last'.user)

\* Before the step, the caller of the step's /link owns a player other than the
\* one named.
UserHoldsOther ==
    LET k == Key("userlink", last'.user)
    IN  k \in DOMAIN store /\ Canon(store[k][2]) # Canon(last'.a)

\* Before the step, the caller of the step's /link owns some player.
UserHoldsAny == Key("userlink", last'.user) \in DOMAIN store

\* C3 as stated: link(player, v) with player linked to a different user fails
\* with AlreadyLinkedPlayer, link(q, u) with u owning a different player fails
\* with AlreadyLinkedUser, and neither writes a store key.
C3_AsStated ==
    [][IsLinkCall =>
          /\ PlayerHeldByOther => last'.res = "AlreadyLinkedPlayer" /\ store' = store
          /\ UserHoldsOther => last'.res = "AlreadyLinkedUser" /\ store' = store]_vars

\* C3 amended: link(player, v) with player linked to a different user u is
\* rejected and writes no key, with AlreadyLinkedPlayer when v owns no player and
\* with AlreadyLinkedUser when v owns one (the user check comes first);
\* link(q, u) with u owning a different player fails with AlreadyLinkedUser and
\* writes no key.
C3_RejectedNoWrite ==
    [][IsLinkCall =>
          /\ PlayerHeldByOther =>
                /\ last'.res = IF UserHoldsAny THEN "AlreadyLinkedUser"
                               ELSE "AlreadyLinkedPlayer"
                /\ store' = store /\ last'.wr = 0
          /\ UserHoldsOther =>
                /\ last'.res = "AlreadyLinkedUser"
                /\ store' = store /\ last'.wr = 0]_vars

\* A /link of a player owned by another user has been rejected as
\* AlreadyLinkedPlayer, and the owner is still the other user.
C3_Witness ==
    /\ last.op = "link" /\ last.res = "AlreadyLinkedPlayer"
    /\ Key("playerlink", Canon(last.a)) \in DOMAIN store
    /\ OwnerOf(store, Key("playerlink", Canon(last.a))) # Str(last.user)

\* The store after the four writes of link(player, user, display, username).
HasLinkKeys(st, playername, user_id, display, username) ==
    /\ Get(st, Key("playerlink", Canon(playername))) = Json(<<user_id, username, display>>)
    /\ Get(st, Key("userlink", user_id)) = Str(Strip(playername))
    /\ Canon(username) # <<>> =>
           Get(st, Key("usernamelink", Canon(username))) = Str(Strip(playername))
    /\ Get(st, Key("usermeta", user_id)) = Json(<<username, display, Strip(playername)>>)

\* C4 as stated: link is rejected only when the user has a DIFFERENT linked
\* player or the player is linked to a DIFFERENT user; otherwise (also for a pair
\* already linked to each other) it is accepted and performs the writes.
C4_AsStated ==
    [][IsLinkCall =>
          IF UserHoldsOther \/ PlayerHeldByOther
          THEN last'.res \in {"AlreadyLinkedUser", "AlreadyLinkedPlayer"}
          ELSE /\ last'.res = "Linked"
               /\ \E d \in Displays : HasLinkKeys(store', last'.a, last'.user, d, last'.b)]_vars

\* C4 amended: link is rejected exactly when the user already has a linked
\* player (any, the named one included) or the player is already linked (to any
\* user, the caller included); only when neither key is set does it perform the
\* writes.
C4_RejectedIffAnyLinked ==
    [][IsLinkCall =>
          IF UserHoldsAny \/ Key("playerlink", Canon(last'.a)) \in DOMAIN store
          THEN /\ last'.res \in {"AlreadyLinkedUser", "AlreadyLinkedPlayer"}
               /\ store' = store
          ELSE /\ last'.res = "Linked"
               /\ \E d \in Displays : HasLinkKeys(store', last'.a, last'.user, d, last'.b)]_vars

\* A /link re-issued for a pair already linked to each other has been rejected.
C4_Witness ==
    /\ last.op = "link" /\ last.res = "AlreadyLinkedUser"
    /\ Key("userlink", last.user) \in DOMAIN store
    /\ Canon(store[Key("userlink", last.user)][2]) = Canon(last.a)
    /\ OwnerOf(store, Key("playerlink", Canon(last.a))) = Str(last.user)

\* The step just taken is an /unlink of a non-empty player name.
IsUnlinkCall == last'.op = "unlink" /\ last'.res # "Usage"

\* C5: unlink(player, requester, requesterIsAdmin) changes the store only when
\* a mapping for player exists and the requester is its user or an
\* administrator; with no mapping it answers NotFound, with a requester who is
\* neither it answers Forbidden, and in both cases no key is deleted or changed.
C5_UnlinkGuard ==
    [][IsUnlinkCall =>
          LET k == Key("playerlink", Canon(last'.a))
              mapped == k \in DOMAIN store
              owner == mapped /\ store[k] = Json(<<last'.user, store[k][2][2], store[k][2][3]>>)
              admin == last'.perms \in {8, 9, 10, 11, 12, 13, 14, 15}
          IN  /\ store' # store => mapped /\ (owner \/ admin)
              /\ ~mapped => last'.res = "NotFound" /\ store' = store
              /\ mapped /\ ~owner /\ ~admin => last'.res = "Forbidden" /\ store' = store
              /\ mapped /\ (owner \/ admin) => last'.res = "Unlinked" /\ k \notin DOMAIN store']_vars

\* An /unlink by a requester who is neither the owner nor an administrator (but
\* holds other permission bits) has been refused while the mapping exists.
C5_Witness ==
    /\ last.op = "unlink" /\ last.res = "Forbidden" /\ last.perms = 7
    /\ Key("playerlink", Canon(last.a)) \in DOMAIN store

\* The step is a successful unlink by the owner directly after the successful
\* link of the same player by the same user.
IsRoundTrip ==
    /\ last.op = "link" /\ last.res = "Linked"
    /\ last'.op = "unlink" /\ last'.res = "Unlinked"
    /\ Canon(last'.a) = Canon(last.a) /\ last'.user = last.user

\* The four keys of link(player, user, _, username) are absent from st.
NoLinkKeys(st, playername, user_id, username) ==
    /\ Key("playerlink", Canon(playername)) \notin DOMAIN st
    /\ Key("userlink", user_id) \notin DOMAIN st
    /\ Key("usermeta", user_id) \notin DOMAIN st
    /\ Canon(username) # <<>> => Key("usernamelink", Canon(username)) \notin DOMAIN st

\* C6 as stated: a successful link followed by a successful unlink by the owner
\* removes every key link wrote, so the store equals its pre-link state,
\* lookup(player) returns none and player and user can be linked again.
C6_AsStated ==
    [][IsRoundTrip =>
          /\ NoLinkKeys(store', last.a, last.user, last.b)
          /\ store' = preLink
          /\ IsNone(ReadPlayerLink(store', last.a))
          /\ SaveLink(store', last.a, last.user, <<100>>, last.b).ok]_vars

\* C6 amended: a successful link followed by a successful unlink by the owner
\* removes every key link wrote; the store then equals its pre-link state less
\* the username key of the link's canonical username (so it equals the pre-link
\* state whenever no other link had written that username key before),
\* lookup(player) returns none and player and user can be linked again.
C6_RoundTrip ==
    [][IsRoundTrip =>
          /\ NoLinkKeys(store', last.a, last.user, last.b)
          /\ store' = IF Canon(last.b) # <<>>
                      THEN Del(preLink, Key("usernamelink", Canon(last.b)))
                      ELSE preLink
          /\ IsNone(ReadPlayerLink(store', last.a))
          /\ SaveLink(store', last.a, last.user, <<100>>, last.b).ok]_vars

\* An owner's unlink has directly followed the link of the same player, and the
\* store is back at its pre-link state.
C6_Witness ==
    /\ last.op = "unlink" /\ last.rtrip
    /\ store = preLink
    /\ DOMAIN store # {}

(***************************************************************************)
(* Claims about the router, checked under SpecRoute.                       *)
(***************************************************************************)
\* C1: in a sequential run of match events for one pair of players (in either
\* order, in any letter case), each with a player linked, every store call
\* succeeding and no gateway request refused or failed, exactly one thread is
\* created: the first event answers new_thread and every later one
\* existing_thread with that same thread.
C1_OneCreatePerPair ==
    \A pair \in DOMAIN rt :
        rt[pair].clean /\ rt[pair].n = 1 =>
            /\ rt[pair].creates = 1
            /\ rt[pair].inorder
            /\ Truthy(rt[pair].first)

\* The pair {a, b} was routed with the players swapped and in another letter
\* case, and reused the thread its first event created.
C1_Witness ==
    /\ last.op = "route" /\ last.res = "existing"
    /\ last.a = <<98>> /\ last.b = <<32, 65>>
    /\ {<<97>>, <<98>>} \in DOMAIN rt
    /\ rt[{<<97>>, <<98>>}].clean /\ rt[{<<97>>, <<98>>}].first = last.val

\* The step just taken is a match event with both player names given.
IsRouteCall == last'.op = "route" /\ last'.res # "missing"

\* The pointer key of the pair of the step's match event.
PointerKey(a_raw, b_raw) ==
    LET x == Canon(a_raw)
        y == Canon(b_raw)
    IN  Key("threadpair", IF StrLeq(x, y) THEN x \o <<124>> \o y ELSE y \o <<124>> \o x)

\* C9: a match event for a pair in which neither player resolves to a linked
\* user answers skipped (no_linked_players) and makes no gateway call and no
\* store write: the store (the pair's pointer included), the threads and the
\* gateway are left as they were.
C9_SkipNoEffect ==
    [][IsRouteCall =>
          /\ ~IsLinked(store, last'.a) /\ ~IsLinked(store, last'.b) => last'.res = "skipped"
          /\ last'.res = "skipped" =>
                /\ last'.gw = 0 /\ last'.wr = 0
                /\ store' = store /\ threads' = threads /\ nextId' = nextId]_vars

\* A pair whose pointer names a live thread was skipped once its player was
\* unlinked.
C9_Witness ==
    /\ last.op = "route" /\ last.res = "skipped" /\ last.ok
    /\ PointerKey(last.a, last.b) \in DOMAIN store
    /\ store[PointerKey(last.a, last.b)][2] \in DOMAIN threads

\* C10: when the pair's pointer names a thread that no longer exists, the next
\* match event for the pair (a player linked, the store calls and the create
\* request succeeding) creates a new thread, overwrites the pointer with its id
\* and answers new_thread; the pointer then names the new, live thread and no
\* longer the deleted one.
C10_RecreateAfterDelete ==
    [][(/\ IsRouteCall
        /\ PointerKey(last'.a, last'.b) \in DOMAIN store
        /\ store[PointerKey(last'.a, last'.b)][2] \notin DOMAIN threads
        /\ IsLinked(store, last'.a) \/ IsLinked(store, last'.b)
        /\ last'.ok /\ last'.gwf \notin {"create", "raise"})
       => LET k == PointerKey(last'.a, last'.b)
          IN  /\ last'.res = "new"
              /\ last'.val # store[k]
              /\ last'.val[2] \in (DOMAIN threads') \ (DOMAIN threads)
              /\ store'[k] = last'.val]_vars

\* A match event has replaced a deleted thread: the first thread is gone, the
\* event answered new_thread and the pointer names the second thread.
C10_Witness ==
    /\ last.op = "route" /\ last.res = "new" /\ last.gwf = "patch" /\ last.ok
    /\ last.val = Str(<<50>>)
    /\ <<49>> \notin DOMAIN threads
    /\ store[PointerKey(last.a, last.b)] = Str(<<50>>)

(***************************************************************************)
(* Claims about the pure functions.                                        *)
(***************************************************************************)
\* A user id is a Discord snowflake: a non-empty string of decimal digits.
IsUserId(v) == v # <<>> /\ \A i \in 1..Len(v) : v[i] \in 48..57

\* C7 (under SpecLookup): for every user id u, the legacy bare string u and the
\* blob {id: u, username, display} stored for a player both resolve to u, and
\* the router's lookup and the link store's lookup return the same user id for
\* every stored value (absent, bare string, well-formed blob, malformed blob).
C7_LookupsAgree ==
    fout # <<>> =>
        /\ fout.router = fout.linkstore
        /\ \A u \in {v \in StringsUpTo(ValueAlphabet, MaxValLen) : IsUserId(v)} :
               /\ fin.name # <<98>>
               /\ \/ fin.val = Str(u)
                  \/ \E un \in {<<120>>, Null} : fin.val = Json(<<u, un, <<100>>>>)
               => fout.router = Str(u) /\ fout.linkstore = Str(u)

\* The legacy bare string "1" stored for "a" was looked up as " A" by both.
C7_Witness ==
    /\ fout # <<>>
    /\ fin.name = <<32, 65>> /\ fin.val = Str(<<49>>)
    /\ fout.router = Str(<<49>>) /\ fout.linkstore = Str(<<49>>)

Banners == Len(Copies(chan, LFG_MESSAGE_TEXT))

\* C11: in a sequential run, the ensures since the last clear (or since the
\* start), all store and gateway calls succeeding, post exactly one message: the
\* first answers created with the id it stored as the pointer, every later one
\* answers exists with the same id and makes no gateway request.
C11_EnsureOnce ==
    LET h == rt[LfgHistoryKey]
    IN  h.clean /\ h.n = 1 =>
            /\ h.posts = 1
            /\ h.inorder
            /\ Truthy(h.first)
            /\ Get(store, LfgKey(LfgChannel)) = h.first

\* A second ensure has answered exists with the message the first one posted,
\* which is in the channel below a later message of somebody else.
C11_Witness ==
    /\ last.op = "status" /\ last.res = "exists"
    /\ rt[LfgHistoryKey].clean /\ rt[LfgHistoryKey].first = last.val
    /\ Len(chan) = 2 /\ chan[2].id = last.val[2] /\ chan[1].content # LFG_MESSAGE_TEXT

\* C12: in every state reached by sequential ensures and clears whose store and
\* gateway calls all succeeded (nobody else posting the banner text, every copy
\* within the scanned window), the channel holds at most one message with the
\* banner text, and after a clear it holds none and the pointer key is absent.
C12_AtMostOneBanner ==
    rt[LfgHistoryKey].pure =>
        /\ Banners <= 1
        /\ last.op = "status" /\ last.res = "deleted_all" =>
               Banners = 0 /\ LfgKey(LfgChannel) \notin DOMAIN store

\* A clear has removed the banner an ensure had posted and left the other
\* message of the channel.
C12_Witness ==
    /\ rt[LfgHistoryKey].pure
    /\ last.op = "status" /\ last.res = "deleted_all" /\ last.gw >= 3
    /\ Len(chan) = 1 /\ nextId = 3

\* C13: the count a clear returns equals the number of messages this clear
\* deleted from the channel, the tracked message deleted through the pointer
\* included.
C13_AsStated ==
    [][last'.op = "status" /\ last'.res = "deleted_all" =>
          last'.cnt = Len(chan) - Len(chan')]_vars

(***************************************************************************)
(* Claims about the retention sweeper, checked under SpecSweep.            *)
(***************************************************************************)
\* The step just taken is a sweep.
IsSweep == last'.op = "sweep"

\* The thread ids of the three enumeration sources before the step: the active
\* and the archived threads of the channel and the stored pair pointers.
SourceIds ==
    (DOMAIN threads) \cup {store[k][2] : k \in {x \in DOMAIN store : x[1] = "threadpair"}}

\* The creation instant derived from a thread id (its upper bits).
CreatedAt(t) == IdNum(t) \div 4194304

\* The thread ids the step's sweep issued a DELETE for.
Called == {last'.calls[i] : i \in 1..Len(last'.calls)}

\* The number of DELETE calls the step's sweep issued for t.
CallsOf(t) == Cardinality({i \in 1..Len(last'.calls) : last'.calls[i] = t})

\* C14: a sweep (its listings and store calls served) issues a delete for a
\* thread id if and only if the id is in one of the three sources and its
\* derived creation instant is earlier than the cutoff; no thread created at or
\* after the cutoff is deleted.
C14_AsStated ==
    [][IsSweep /\ last'.lok =>
          /\ \A t \in SweepThreadIds :
                 t \in Called <=> (t \in SourceIds /\ CreatedAt(t) < last'.cutoff_ms)
          /\ \A t \in (DOMAIN threads) \ (DOMAIN threads') :
                 CreatedAt(t) < last'.cutoff_ms]_vars

\* C15: within one sweep a thread id that is in more than one source is
\* inspected once, has at most one delete call issued for it and adds at most
\* one to the inspected and deleted counters.
C15_AsStated ==
    [][IsSweep =>
          /\ \A t \in SweepThreadIds : CallsOf(t) <= 1
          /\ last'.inspected <= Cardinality(SourceIds)
          /\ last'.deleted <= Cardinality(SourceIds)]_vars

\* C17: when the delete call of one candidate fails during a sweep (refused with
\* an error status, or timed out), the sweep is not aborted: errors counts that
\* failure, every other old candidate of every source still has its delete
\* issued, and the sweep returns its counters.
C17_AsStated ==
    [][IsSweep /\ last'.lok /\ last'.failed # <<>> /\ last'.failed[2] # "403" =>
          /\ last'.res = "ok"
          /\ last'.errors = CallsOf(last'.failed[1])
          /\ \A t \in SourceIds : CreatedAt(t) < last'.cutoff_ms => t \in Called]_vars

\* A sweep has ended: _cleanup has returned its counters, or an error has
\* escaped it.
SweepEnded == procs # <<>> /\ procs[1].pc \in {"done", "crash"}

\* C16: a sweep ends whatever the archived listing answers, also when every
\* answer is a non-empty page with has_more set.
C16_AsStated == <>SweepEnded

(***************************************************************************)
(* Claims about the webhook handlers, checked under SpecHook.              *)
(***************************************************************************)
\* The step just taken handled the request in flight.
IsHandled == procs # <<>> /\ ~procs[1].answered /\ Idle /\ last'.op # "init"

\* The step ran no sweep, made no gateway request and no store write, and left
\* the store, the threads and the status channel as they were.
NoEffect ==
    /\ store' = store /\ threads' = threads /\ chan' = chan /\ nextId' = nextId
    /\ last'.op # "sweep" /\ last'.gw = 0 /\ last'.wr = 0

\* The shapes of isLooking a status event may have: a boolean, 0, 1, "true",
\* "false".
AcceptedShape(v) ==
    \/ v[1] = "bool"
    \/ v[1] = "int" /\ v[2] \in {0, 1}
    \/ v[1] = "str" /\ v[2] \in { <<116, 114, 117, 101>>, <<102, 97, 108, 115, 101>> }

\* C18: a request whose X-Shared-Secret header is missing or differs from the
\* secret is answered 401 before anything else is done, in every configuration.
C18_AsStated ==
    [][IsHandled /\ procs[1].header # Secret =>
          last'.res = "unauthorized" /\ NoEffect]_vars

\* C19: a match event lacking playerOne or playerTwo, and a status event whose
\* isLooking is absent or not a boolean, 0, 1, "true" or "false", is rejected:
\* nothing is written, no message is posted or deleted, neither ensure nor
\* clear runs.
C19_AsStated ==
    [][IsHandled /\ last'.res # "unauthorized" =>
          LET body == procs[1].body
          IN  /\ body.kind = "match" /\ (body.playerOne = <<>> \/ body.playerTwo = <<>>) =>
                     last'.res = "missing" /\ NoEffect
              /\ body.kind = "status" /\ ~AcceptedShape(body.v) =>
                     /\ last'.res \notin {"created", "exists", "error", "deleted_all", "crash"}
                     /\ NoEffect]_vars

(***************************************************************************)
(* Claims about concurrent match events, checked under SpecRace.           *)
(***************************************************************************)
\* Both requests have completed, each having read an absent pointer and created
\* a thread, with every store call served.
BothCreated ==
    \A i \in RaceIds :
        /\ procs[i].pc = "done" /\ procs[i].res = "new"
        /\ IsNone(procs[i].pointer) /\ procs[i].ok

\* The values of the pointers in the store.
Pointed == { store[k] : k \in {x \in DOMAIN store : x[1] = "threadpair"} }

\* C20: when two concurrent match events of a brand-new pair have both read an
\* absent pointer and both created a thread, then after both completed two
\* threads exist, the pointer of the pair names the thread of the request whose
\* SET came last, and the other thread is named by no pointer.
C20_DuplicateRace ==
    BothCreated =>
        \E w \in RaceIds :
            LET l == 3 - w
            IN  /\ procs[w].wrote = 2 /\ procs[l].wrote = 1
                /\ procs[w].thread_id # procs[l].thread_id
                /\ {procs[w].thread_id[2], procs[l].thread_id[2]} \subseteq DOMAIN threads
                /\ Cardinality(DOMAIN threads) = 2
                /\ Get(store, PairKey(procs[w].p1, procs[w].p2)) = procs[w].thread_id
                /\ procs[l].thread_id \notin Pointed

\* Both requests have read an absent pointer and created a thread, and the
\* request that created the first thread wrote its pointer last.
C20_Witness ==
    /\ BothCreated
    /\ \E w \in RaceIds : procs[w].wrote = 2 /\ procs[w].thread_id = Str(IdStr(1))
    /\ Cardinality(DOMAIN threads) = 2

(***************************************************************************)
(* Claims about concurrent status events, checked under SpecLfgRace.       *)
(***************************************************************************)
\* No ensure or clear is in progress.
LfgQuiet == \A i \in LfgIds : procs[i].pc \in {"new", "done"}

\* The ids of the messages in the channel that show the banner text.
LiveBanners ==
    { chan[k].id : k \in {n \in 1..Len(chan) : chan[n].content = LFG_MESSAGE_TEXT} }

\* Both calls were ensures that read an absent pointer and posted, every
\* request served, and both have returned.
BothPosted ==
    /\ rt[LfgHistoryKey].pure
    /\ \A i \in LfgIds : procs[i].pc = "done" /\ procs[i].kind = "ensure"
                             /\ procs[i].res = "created"

\* C21: two concurrent ensures with the pointer absent can both post; when both
\* have, two banner messages are live and the pointer names one of them only,
\* the one whose SET came last.
C21_DoubleBanner ==
    BothPosted =>
        \E w \in LfgIds :
            LET l == 3 - w
            IN  /\ procs[w].wrote = 2 /\ procs[l].wrote = 1
                /\ LiveBanners = {procs[w].msg_id[2], procs[l].msg_id[2]}
                /\ Cardinality(LiveBanners) = 2
                /\ Get(store, LfgKey(LfgChannel)) = procs[w].msg_id

\* Both ensures have posted and returned, and the pointer names the banner
\* posted first.
C21_Witness ==
    /\ BothPosted
    /\ Get(store, LfgKey(LfgChannel)) = Str(IdStr(1))
    /\ Banners = 2

\* C22: whenever no ensure or clear is in progress on the channel, every request
\* so far having been served, a set pointer names a message that is live in the
\* channel, whatever the interleaving of the calls.
C22_AsStated ==
    LfgQuiet /\ rt[LfgHistoryKey].pure /\ Truthy(Get(store, LfgKey(LfgChannel))) =>
        Get(store, LfgKey(LfgChannel))[2] \in LiveBanners

\* C22 for calls that do not overlap: whenever no ensure or clear is in progress
\* and no call has started while another was in progress, every request so far
\* having been served, a set pointer names a message that is live in the channel.
C22_PointerLive ==
    LfgQuiet /\ rt[LfgHistoryKey].pure /\ ~rt[LfgHistoryKey].overlap
             /\ Truthy(Get(store, LfgKey(LfgChannel))) =>
        Get(store, LfgKey(LfgChannel))[2] \in LiveBanners

\* A clear has removed the banner and the pointer, and the ensure called after
\* it has posted a new banner and stored its id.
C22_Witness ==
    /\ LfgQuiet /\ rt[LfgHistoryKey].pure /\ ~rt[LfgHistoryKey].overlap
    /\ \E i \in LfgIds : procs[i].res = "deleted_all" /\ procs[3 - i].res = "created"
    /\ Get(store, LfgKey(LfgChannel)) = Str(IdStr(2))
    /\ LiveBanners = {IdStr(2)}

(***************************************************************************)
(* Claims about concurrent link commands, checked under SpecLinkRace.      *)
(***************************************************************************)
\* Both commands have been answered, every store request served.
LinksDone == rt[LinkRaceKey].pure /\ \A i \in LinkIds : procs[i].pc = "done"

\* The forward and the reverse keys agree: the owner of every linked player
\* has that player as their reverse key, and every reverse key names a player
\* linked to that user.
KeysAgree(st) ==
    /\ \A k \in PlayerKeys(st) :
           /\ Truthy(OwnerOf(st, k))
           /\ Key("userlink", OwnerOf(st, k)[2]) \in DOMAIN st
           /\ Canon(st[Key("userlink", OwnerOf(st, k)[2])][2]) = k[2]
    /\ \A k \in UserKeys(st) :
           /\ Key("playerlink", Canon(st[k][2])) \in DOMAIN st
           /\ OwnerOf(st, Key("playerlink", Canon(st[k][2]))) = Str(k[2])

\* No user owns two players and no player is the linked player of two users.
OneToOne(st) ==
    /\ \A k1, k2 \in PlayerKeys(st) : OwnerOf(st, k1) = OwnerOf(st, k2) => k1 = k2
    /\ \A k1, k2 \in UserKeys(st) : Canon(st[k1][2]) = Canon(st[k2][2]) => k1 = k2

\* At most one of the two commands was answered Linked.
AtMostOneLinked == Cardinality({i \in LinkIds : procs[i].res = "Linked"}) <= 1

\* C23: for every interleaving of two link commands that conflict (two users
\* linking one player, one user linking two players), once both have finished
\* at most one has succeeded, the identity mapping is 1:1 and the forward and
\* reverse keys agree.
C23_AsStated ==
    LinksDone => AtMostOneLinked /\ OneToOne(store) /\ KeysAgree(store)

\* C23 for commands that do not overlap: once both have finished, the second
\* having started after the first was answered, at most one has succeeded, the
\* identity mapping is 1:1 and the forward and reverse keys agree.
C23_Sequential ==
    LinksDone /\ ~rt[LinkRaceKey].overlap =>
        AtMostOneLinked /\ OneToOne(store) /\ KeysAgree(store)

\* The second command, called after the first was answered Linked, was rejected
\* because the player is taken.
C23_Witness ==
    /\ LinksDone /\ ~rt[LinkRaceKey].overlap
    /\ procs[1].res = "Linked" /\ procs[2].res = "AlreadyLinkedPlayer"
    /\ Cardinality(PlayerKeys(store)) = 1

\* C25: a link command is answered Linked only if every one of its store writes
\* succeeded.
C25_AsStated ==
    \A i \in LinkIds : procs[i].pc = "done" /\ procs[i].res = "Linked" => procs[i].ok

(***************************************************************************)
(* Further claims about the match router, checked under SpecRoute.         *)
(***************************************************************************)
\* C24: whenever a match event is answered new with thread r, the pointer key
\* of the pair holds r when the call returns, also when the SET failed.
C24_AsStated ==
    [][IsRouteCall /\ last'.res = "new" =>
          Get(store', PointerKey(last'.a, last'.b)) = last'.val]_vars

\* C26: a store call that fails unexpectedly (raises) during a command is
\* caught in the handler and answered; no error escapes the handler.
C26_AsStated ==
    \A i \in LinkIds : procs[i].pc = "done" => procs[i].res # "escaped"

(***************************************************************************)
(* Further claims about the retention sweeper, checked under SpecSweep.    *)
(***************************************************************************)
\* The DELETE calls of the step's sweep that the gateway served (2xx, or 404
\* for a thread already gone).
ServedCalls ==
    {i \in 1..Len(last'.calls) : last'.failed = <<>> \/ last'.calls[i] # last'.failed[1]}

\* C27: the deleted counter of a sweep is the number of delete calls answered
\* 2xx or not found; a delete refused with another status (such as 403) adds to
\* errors and not to deleted.
C27_AsStated ==
    [][IsSweep /\ last'.res = "ok" =>
          /\ last'.deleted = Cardinality(ServedCalls)
          /\ last'.failed # <<>> /\ last'.failed[2] # "raise" =>
                 last'.errors = CallsOf(last'.failed[1])]_vars

(***************************************************************************)
(* Claims about repeated sweeps, checked under SpecRetry.                  *)
(***************************************************************************)
\* One of the three sources enumerates the thread in every sweep answered as in
\* mode: the listing of the active threads, the listing of the archived ones,
\* or a stored pointer, which the scan returns and the GET reads.
Enumerable(t) ==
    \/ threads[t] = "active" /\ RetryProc.mode.la = "ok"
    \/ threads[t] = "archived" /\ RetryProc.mode.lp = "ok"
    \/ \E keys \in {UScan(store, "threadpair", RetryProc.mode.sc)} :
           \E i \in 1..Len(keys) : UGet(store, keys[i], RetryProc.mode.g) = Str(t)

\* The thread exists, a source enumerates it, and its derived creation instant
\* is earlier than the cutoff of a sweep fired now.
Overdue(t) ==
    /\ t \in DOMAIN threads
    /\ Enumerable(t)
    /\ CreatedAt(t) < CutoffMs(RetryProc.now_ms, THREAD_MAX_AGE_SECONDS)

\* C28: under repeated sweeps and a gateway whose deletes are served in the end,
\* every thread that stays enumerable by one of the three sources (the active
\* listing, the archived listing, the stored pointers) and is older than the
\* cutoff is eventually deleted: a delete not served in one sweep is issued
\* again by a later one.
C28_Reconverges ==
    \A t \in RetryThreadIds : Overdue(t) ~> (t \notin DOMAIN threads)

\* The last sweep deleted a thread whose DELETE an earlier sweep was refused,
\* and only the stored pointer enumerated it: the listing of the active threads
\* is refused for good and the sweep issued one DELETE, for the thread of the
\* pointer.
C28_Witness ==
    /\ RetryProc.pc = "idle"
    /\ RetryProc.env = RetryProc.mode
    /\ RetryProc.mode.la = "http"
    /\ \E t \in RetryProc.refused :
         /\ t \notin DOMAIN threads
         /\ RetryProc.acc.calls = <<t>>
         /\ \E k \in DOMAIN store : store[k] = Str(t)

(***************************************************************************)
(* Claims about the keys each component writes, checked under SpecFrame.   *)
(***************************************************************************)
\* The step leaves the store key k as it was: absent, or with the same value.
Untouched(k) ==
    /\ k \in DOMAIN store <=> k \in DOMAIN store'
    /\ k \in DOMAIN store => store'[k] = store[k]

AllKeys == (DOMAIN store) \cup (DOMAIN store')

\* C29: no component mutates another component's keys: a sweep leaves every
\* store key untouched, a match event touches no key but the pointer key of its
\* own pair, and a status event no key but the pointer key of its channel.
C29_Frames ==
    [][/\ IsSweep => \A k \in AllKeys : Untouched(k)
       /\ last'.op = "route" =>
              \A k \in AllKeys \ {PointerKey(last'.a, last'.b)} : Untouched(k)
       /\ last'.op = "status" =>
              \A k \in AllKeys \ {LfgKey(LfgChannel)} : Untouched(k)]_vars

\* A sweep has deleted a thread while the store holds identity keys, the pointer
\* a match event wrote for the thread, and the pointer of the channel's banner.
C29_Witness ==
    /\ last.op = "sweep"
    /\ last.deleted >= 1
    /\ LfgKey(LfgChannel) \in DOMAIN store
    /\ \E k \in DOMAIN store :
         /\ k[1] = "threadpair"
         /\ \E i \in 1..Len(last.calls) : last.calls[i] = store[k][2]
    /\ \E k \in DOMAIN store : k[1] = "playerlink"

(***************************************************************************)
(* Claims about legacy mappings, checked under SpecLegacy.                 *)
(***************************************************************************)
\* C30: from a store that holds a legacy bare-string mapping of player p to user
\* u, link commands never leave a user owning two players: link(q, u) with
\* q # p is rejected.
C30_AsStated ==
    \A k1, k2 \in PlayerKeys(store) :
        Truthy(OwnerOf(store, k1)) /\ OwnerOf(store, k1) = OwnerOf(store, k2) => k1 = k2

====
